---- MODULE Spec2Model ----
(***************************************************************************)
(* A model of the BLF (Vector Binary Log File) reader of wiretap, blf.c:   *)
(* the open-time scan for log containers, the virtual reader over the      *)
(* concatenated uncompressed containers with its container cache, the      *)
(* object demultiplexer blf_read_block, the record initialisation with its *)
(* timestamp conversion, the interface registry, and the session entry     *)
(* points blf_open / blf_read / blf_seek_read / blf_close.                 *)
(*                                                                         *)
(* Files are modelled byte for byte (little-endian fields are parsed from  *)
(* the bytes); 64-bit quantities are kept exactly, as little-endian        *)
(* sequences of 16-bit limbs, so that wrap-around at 2^64 is the code's.   *)
(***************************************************************************)
EXTENDS Integers, Sequences, FiniteSets, TLC

(***************************************************************************)
(* Bytes and little-endian fields                                          *)
(***************************************************************************)
LE16(x) == <<x % 256, (x \div 256) % 256>>

LE32(x) == <<x % 256, (x \div 256) % 256, (x \div 65536) % 256, (x \div 16777216) % 256>>

\* the 16-bit field at 0-based offset o of byte sequence b
GUINT16_FROM_LE(b, o) == b[o + 1] + 256 * b[o + 2]

\* the 32-bit field at 0-based offset o of byte sequence b
GUINT32_FROM_LE(b, o) == b[o + 1] + 256 * b[o + 2] + 65536 * b[o + 3] + 16777216 * b[o + 4]

\* the 64-bit field at 0-based offset o of b, as four 16-bit limbs, least first
GUINT64_FROM_LE(b, o) ==
    << GUINT16_FROM_LE(b, o), GUINT16_FROM_LE(b, o + 2),
       GUINT16_FROM_LE(b, o + 4), GUINT16_FROM_LE(b, o + 6) >>

\* n zero bytes
Zeros(n) == [i \in 1..n |-> 0]

\* SubSeq with a 0-based offset and a count
Slice(b, o, n) == SubSeq(b, o + 1, o + n)

MAX(a, b) == IF a > b THEN a ELSE b

MIN(a, b) == IF a < b THEN a ELSE b

(***************************************************************************)
(* guint64 arithmetic on limbs (base 65536, least significant limb first)  *)
(***************************************************************************)
LimbBase == 65536

U64Limbs == 4

Zero64 == <<0, 0, 0, 0>>

\* x padded with zero limbs to n limbs
PadLimbs(x, n) == x \o Zeros(n - Len(x))

\* a guint64 keeps the low 64 bits
Wrap64(x) == SubSeq(PadLimbs(x, U64Limbs), 1, U64Limbs)

\* x * m + carry, exact, for 0 <= m <= 32000; one limb longer than x
RECURSIVE MulLimbs(_, _, _)
MulLimbs(x, m, carry) ==
    IF x = <<>> THEN <<carry>>
    ELSE LET t == x[1] * m + carry
         IN  <<t % LimbBase>> \o MulLimbs(Tail(x), m, t \div LimbBase)

\* x + y + carry, exact, for x and y of the same length; one limb longer
RECURSIVE AddLimbsEq(_, _, _)
AddLimbsEq(x, y, carry) ==
    IF x = <<>> THEN <<carry>>
    ELSE LET t == x[1] + y[1] + carry
         IN  <<t % LimbBase>> \o AddLimbsEq(Tail(x), Tail(y), t \div LimbBase)

AddLimbs(x, y) ==
    LET n == MAX(Len(x), Len(y))
    IN  AddLimbsEq(PadLimbs(x, n), PadLimbs(y, n), 0)

\* quotient and remainder of x by d, for 1 <= d <= 32000
RECURSIVE DivLimbs(_, _)
DivLimbs(x, d) ==
    IF x = <<>> THEN [q |-> <<>>, r |-> 0]
    ELSE LET hi == DivLimbs(Tail(x), d)
             t  == hi.r * LimbBase + x[1]
         IN  [q |-> <<t \div d>> \o hi.q, r |-> t % d]

\* x < y on limbs of the same length
RECURSIVE LessLimbsEq(_, _)
LessLimbsEq(x, y) ==
    IF x = <<>> THEN FALSE
    ELSE LET n == Len(x)
         IN  IF x[n] # y[n] THEN x[n] < y[n]
             ELSE LessLimbsEq(SubSeq(x, 1, n - 1), SubSeq(y, 1, n - 1))

LessLimbs(x, y) ==
    LET n == MAX(Len(x), Len(y))
    IN  LessLimbsEq(PadLimbs(x, n), PadLimbs(y, n))

EqLimbs(x, y) ==
    LET n == MAX(Len(x), Len(y))
    IN  PadLimbs(x, n) = PadLimbs(y, n)

\* the limbs of a natural number below 2^31
NatLimbs(n) == <<n % LimbBase, n \div LimbBase, 0, 0>>

\* the eight little-endian bytes of a guint64
U64Bytes(x) == LE16(x[1]) \o LE16(x[2]) \o LE16(x[3]) \o LE16(x[4])

(***************************************************************************)
(* Error codes; ERR_NONE is an err of 0, which the callers read as EOF     *)
(***************************************************************************)
ERR_NONE == "0"

WTAP_ERR_SHORT_READ == "WTAP_ERR_SHORT_READ"

WTAP_ERR_BAD_FILE == "WTAP_ERR_BAD_FILE"

WTAP_ERR_UNSUPPORTED == "WTAP_ERR_UNSUPPORTED"

WTAP_ERR_DECOMPRESS == "WTAP_ERR_DECOMPRESS"

WTAP_ERR_INTERNAL == "WTAP_ERR_INTERNAL"

ENOMEM == "ENOMEM"

(***************************************************************************)
(* On-disk layout                                                          *)
(***************************************************************************)
blf_obj_magic == <<76, 79, 66, 74>>

blf_magic == <<76, 79, 71, 71>>

\* sizeof(blf_blockheader_t): magic[4], header_length, header_type,
\* object_length, object_type
SIZEOF_BLOCKHEADER == 16

\* sizeof(blf_logcontainerheader_t): compression_method, res1, res2,
\* uncompressed_size, res4
SIZEOF_LOGCONTAINERHEADER == 16

\* sizeof(blf_logobjectheader_t): flags, client_index, object_version,
\* object_timestamp
SIZEOF_LOGOBJECTHEADER == 16

BLF_HEADER_TYPE_DEFAULT == 1

BLF_HEADER_TYPE_2 == 2

BLF_HEADER_TYPE_3 == 3

BLF_COMPRESSION_NONE == 0

BLF_COMPRESSION_ZLIB == 2

BLF_OBJTYPE_CAN_MESSAGE == 1

BLF_OBJTYPE_LOG_CONTAINER == 10

BLF_OBJTYPE_APP_TEXT == 65

BLF_OBJTYPE_ETHERNET_FRAME == 71

BLF_OBJTYPE_ETHERNET_STATUS == 103

BLF_OBJTYPE_CAN_FD_MESSAGE == 100

BLF_OBJTYPE_CAN_FD_MESSAGE_64 == 101

BLF_OBJTYPE_CAN_MESSAGE2 == 86

\* fix_endianness_blf_blockheader: the block header read from 16 bytes
blockheader(b) ==
    [ magic         |-> SubSeq(b, 1, 4),
      header_length |-> GUINT16_FROM_LE(b, 4),
      header_type   |-> GUINT16_FROM_LE(b, 6),
      object_length |-> GUINT32_FROM_LE(b, 8),
      object_type   |-> GUINT32_FROM_LE(b, 12) ]

\* fix_endianness_blf_logcontainerheader
logcontainerheader(b) ==
    [ compression_method |-> GUINT16_FROM_LE(b, 0),
      uncompressed_size  |-> GUINT32_FROM_LE(b, 8) ]

\* fix_endianness_blf_logobjectheader
logobjectheader(b) ==
    [ flags            |-> GUINT32_FROM_LE(b, 0),
      object_timestamp |-> GUINT64_FROM_LE(b, 8) ]

\* an advance of at least 8 bytes
ObjectAdvance_at_least_8(header) == MAX(MAX(8, header.object_length), header.header_length)

\* an advance that leaves header_length out
ObjectAdvance_no_header_length(header) == MAX(16, header.object_length)

\* MAX(MAX(16, header.object_length), header.header_length)
ObjectAdvance(header) == MAX(MAX(16, header.object_length), header.header_length)

(***************************************************************************)
(* The host's file primitive                                               *)
(***************************************************************************)
\* wtap_read_bytes_or_eof at file position pos: all count bytes, or a short
\* read (some bytes were there), or EOF (err 0, none were)
wtap_read_bytes_or_eof(f, pos, count) ==
    LET avail == Len(f.bytes) - pos
    IN  IF avail >= count
        THEN [ok |-> TRUE, err |-> ERR_NONE, data |-> Slice(f.bytes, pos, count)]
        ELSE [ok |-> FALSE,
              err |-> IF avail > 0 THEN WTAP_ERR_SHORT_READ ELSE ERR_NONE,
              data |-> <<>>]

(***************************************************************************)
(* zlib. The stream format stands in for RFC 1950: a header byte, the      *)
(* number of payload bytes in two bytes, and the payload bytes complemented.*)
(***************************************************************************)
ZHeaderByte == 120

\* the null pointer, for real_data
NULL == <<-1>>

\* g_try_malloc0(n): n zero bytes, and NULL for n = 0
g_try_malloc0(n) == IF n = 0 THEN NULL ELSE Zeros(n)

\* inflate(&infstream, Z_NO_FLUSH) with avail_in = Len(comp) and an output
\* buffer buf of avail_out bytes: the return code and the buffer afterwards
inflate(comp, buf, avail_out) ==
    IF buf = NULL THEN [ret |-> "Z_STREAM_ERROR", out |-> buf]
    ELSE IF Len(comp) < 3 THEN [ret |-> "Z_BUF_ERROR", out |-> buf]
    ELSE IF comp[1] # ZHeaderByte THEN [ret |-> "Z_DATA_ERROR", out |-> buf]
    ELSE LET n    == GUINT16_FROM_LE(comp, 1)
             have == MIN(MIN(n, Len(comp) - 3), avail_out)
             out  == [i \in 1..avail_out |->
                        IF i <= have THEN 255 - comp[3 + i] ELSE buf[i]]
         IN  IF n > avail_out \/ Len(comp) - 3 < n
             THEN [ret |-> "Z_OK", out |-> out]
             ELSE [ret |-> "Z_STREAM_END", out |-> out]

(***************************************************************************)
(* Container index                                                         *)
(***************************************************************************)
\* blf_init_logcontainer
blf_init_logcontainer ==
    [ infile_start_pos   |-> 0,
      infile_length      |-> 0,
      infile_data_start  |-> 0,
      real_start_pos     |-> 0,
      real_length        |-> 0,
      compression_method |-> 0,
      real_data          |-> NULL ]

\* the inner "Find Object" loop of the scan: the first position >= pos with
\* the LOBJ magic, or the end of the file
RECURSIVE scan_find_object(_, _)
scan_find_object(f, pos) ==
    LET r == wtap_read_bytes_or_eof(f, pos, SIZEOF_BLOCKHEADER)
    IN  IF ~r.ok THEN [found |-> FALSE, pos |-> pos, header |-> blockheader(Zeros(16))]
        ELSE IF SubSeq(r.data, 1, 4) = blf_obj_magic
             THEN [found |-> TRUE, pos |-> pos, header |-> blockheader(r.data)]
             ELSE scan_find_object(f, pos + 1)

\* an object the scan located at current_start_pos and the file position
\* the scan moved to after it
Scanned(current_start_pos, header, outcome, next) ==
    [start |-> current_start_pos, header |-> header,
     logheader |-> logobjectheader(Zeros(16)),
     header_read |-> FALSE, outcome |-> outcome, seek_pos |-> next]

\* blf_scan_file_for_logcontainers from file position pos, with the running
\* virtual start current_real_start, the containers lc found so far and the
\* objects located so far
RECURSIVE blf_scan_file_for_logcontainers(_, _, _, _, _)
\* the scan stopping at the object at current_start_pos
scan_stop(current_start_pos, header, lc, trail) ==
    [ok |-> FALSE, lc |-> lc, end |-> current_start_pos,
     trail |-> Append(trail, Scanned(current_start_pos, header, "failed",
                                     current_start_pos))]

\* the log container at current_start_pos, after the read of its container
\* header at hpos has returned r
scan_container(f, r, hpos, current_start_pos, header, current_real_start, lc, trail) ==
    LET next == current_start_pos + ObjectAdvance(header)
        lch  == logcontainerheader(r.data)
        tmp  == [blf_init_logcontainer EXCEPT
                   !.infile_start_pos   = current_start_pos,
                   !.infile_data_start  = hpos + SIZEOF_LOGCONTAINERHEADER,
                   !.infile_length      = header.object_length,
                   !.real_start_pos     = current_real_start,
                   !.real_length        = lch.uncompressed_size,
                   !.compression_method = lch.compression_method]
    IN  IF ~r.ok THEN scan_stop(current_start_pos, header, lc, trail)
        ELSE blf_scan_file_for_logcontainers(
                 f, next, current_real_start + lch.uncompressed_size, Append(lc, tmp),
                 Append(trail, Scanned(current_start_pos, header, "container", next)))

\* one turn of the scan after the find-object loop has returned o
scan_object(f, o, current_real_start, lc, trail) ==
    LET header == o.header
        current_start_pos == o.pos
        next   == current_start_pos + ObjectAdvance(header)
        hpos   == IF header.header_length - SIZEOF_BLOCKHEADER > 0
                  THEN current_start_pos + header.header_length
                  ELSE current_start_pos + SIZEOF_BLOCKHEADER
    IN  IF ~o.found THEN [ok |-> TRUE, lc |-> lc, end |-> o.pos, trail |-> trail]
        ELSE IF header.header_type # BLF_HEADER_TYPE_DEFAULT
             THEN scan_stop(current_start_pos, header, lc, trail)
        ELSE IF header.object_type = BLF_OBJTYPE_LOG_CONTAINER
             THEN IF header.header_length < SIZEOF_BLOCKHEADER
                  THEN scan_stop(current_start_pos, header, lc, trail)
                  ELSE scan_container(
                           f, wtap_read_bytes_or_eof(f, hpos, SIZEOF_LOGCONTAINERHEADER),
                           hpos, current_start_pos, header, current_real_start, lc, trail)
             ELSE blf_scan_file_for_logcontainers(f, next, current_real_start, lc,
                      Append(trail, Scanned(current_start_pos, header, "skipped", next)))

blf_scan_file_for_logcontainers(f, pos, current_real_start, lc, trail) ==
    scan_object(f, scan_find_object(f, pos), current_real_start, lc, trail)

\* a lookup that takes the end of a container's range for part of it
blf_find_logcontainer_for_address_inclusive(lc, pos) ==
    LET hit == {i \in 1..Len(lc) :
                  /\ lc[i].real_start_pos <= pos
                  /\ pos <= lc[i].real_start_pos + lc[i].real_length}
    IN  IF hit = {} THEN -1
        ELSE (CHOOSE i \in hit : \A j \in hit : i <= j) - 1

\* blf_find_logcontainer_for_address: the 0-based index of the first
\* container whose virtual range holds pos, or -1
blf_find_logcontainer_for_address(lc, pos) ==
    LET hit == {i \in 1..Len(lc) :
                  /\ lc[i].real_start_pos <= pos
                  /\ pos < lc[i].real_start_pos + lc[i].real_length}
    IN  IF hit = {} THEN -1
        ELSE (CHOOSE i \in hit : \A j \in hit : i <= j) - 1

(***************************************************************************)
(* Container cache                                                         *)
(***************************************************************************)
\* the switch on inflate's return code other than Z_STREAM_END
inflate_error(ret) ==
    CASE ret = "Z_NEED_DICT"    -> WTAP_ERR_DECOMPRESS
      [] ret = "Z_STREAM_ERROR" -> WTAP_ERR_DECOMPRESS
      [] ret = "Z_MEM_ERROR"    -> ENOMEM
      [] ret = "Z_DATA_ERROR"   -> WTAP_ERR_DECOMPRESS
      [] ret = "Z_BUF_ERROR"    -> WTAP_ERR_INTERNAL
      [] ret = "Z_VERSION_ERROR" -> WTAP_ERR_INTERNAL
      [] OTHER                  -> WTAP_ERR_INTERNAL

\* a pull that fails on a container already in memory
pull_cached_fails(lc) == [ok |-> FALSE, err |-> WTAP_ERR_INTERNAL, lc |-> lc]

\* a pull that frees what is in memory
pull_cached_frees(lc) ==
    [ok |-> TRUE, err |-> ERR_NONE,
     lc |-> [i \in DOMAIN lc |-> [lc[i] EXCEPT !.real_data = NULL]]]

\* blf_pull_logcontainer_into_memory on a container already in memory
pull_cached(lc) == [ok |-> TRUE, err |-> ERR_NONE, lc |-> lc]

\* a pull that, when inflate fails, leaves the output buffer in the descriptor
blf_pull_logcontainer_into_memory_keeps_buffer(f, lc, index_log_container) ==
    IF index_log_container >= Len(lc)
    THEN [ok |-> FALSE, err |-> WTAP_ERR_INTERNAL, lc |-> lc]
    ELSE
    LET tmp == lc[index_log_container + 1]
        fail(e) == [ok |-> FALSE, err |-> e, lc |-> lc]
    IN  IF tmp.real_data # NULL THEN pull_cached(lc)
        ELSE IF tmp.compression_method = BLF_COMPRESSION_ZLIB
        THEN IF tmp.infile_start_pos < 0 THEN fail(WTAP_ERR_INTERNAL)
             ELSE IF tmp.infile_data_start < tmp.infile_start_pos
                  THEN fail(WTAP_ERR_INTERNAL)
             ELSE IF tmp.infile_length < tmp.infile_data_start - tmp.infile_start_pos
                  THEN fail(WTAP_ERR_INTERNAL)
             ELSE LET data_length ==
                          tmp.infile_length - (tmp.infile_data_start - tmp.infile_start_pos)
                      r   == wtap_read_bytes_or_eof(f, tmp.infile_data_start, data_length)
                      buf == g_try_malloc0(tmp.real_length)
                      z   == inflate(r.data, buf, tmp.real_length)
                  IN  IF ~r.ok
                      THEN fail(IF r.err = WTAP_ERR_SHORT_READ
                                THEN WTAP_ERR_INTERNAL ELSE r.err)
                      ELSE IF z.ret # "Z_STREAM_END"
                      THEN [ok |-> FALSE, err |-> inflate_error(z.ret),
                            lc |-> [lc EXCEPT ![index_log_container + 1].real_data = z.out]]
                      ELSE [ok |-> TRUE, err |-> ERR_NONE,
                            lc |-> [lc EXCEPT ![index_log_container + 1].real_data = z.out]]
        ELSE fail(ERR_NONE)

\* blf_pull_logcontainer_into_memory for the container of 0-based index
\* index_log_container: the outcome and the containers afterwards
blf_pull_logcontainer_into_memory(f, lc, index_log_container) ==
    IF index_log_container >= Len(lc)
    THEN [ok |-> FALSE, err |-> WTAP_ERR_INTERNAL, lc |-> lc]
    ELSE
    LET tmp == lc[index_log_container + 1]
        fail(e) == [ok |-> FALSE, err |-> e, lc |-> lc]
    IN  IF tmp.real_data # NULL THEN pull_cached(lc)
        ELSE IF tmp.compression_method = BLF_COMPRESSION_ZLIB
        THEN IF tmp.infile_start_pos < 0 THEN fail(WTAP_ERR_INTERNAL)
             ELSE IF tmp.infile_data_start < tmp.infile_start_pos
                  THEN fail(WTAP_ERR_INTERNAL)
             ELSE IF tmp.infile_length < tmp.infile_data_start - tmp.infile_start_pos
                  THEN fail(WTAP_ERR_INTERNAL)
             ELSE LET data_length ==
                          tmp.infile_length - (tmp.infile_data_start - tmp.infile_start_pos)
                      r   == wtap_read_bytes_or_eof(f, tmp.infile_data_start, data_length)
                      buf == g_try_malloc0(tmp.real_length)
                      z   == inflate(r.data, buf, tmp.real_length)
                  IN  IF ~r.ok
                      THEN fail(IF r.err = WTAP_ERR_SHORT_READ
                                THEN WTAP_ERR_INTERNAL ELSE r.err)
                      ELSE IF z.ret # "Z_STREAM_END" THEN fail(inflate_error(z.ret))
                      ELSE [ok |-> TRUE, err |-> ERR_NONE,
                            lc |-> [lc EXCEPT ![index_log_container + 1].real_data = z.out]]
        ELSE fail(ERR_NONE)

(***************************************************************************)
(* Virtual reader                                                          *)
(***************************************************************************)
\* the loop of case BLF_COMPRESSION_NONE: buf holds the bytes copied so far
RECURSIVE read_loop_none(_, _, _, _, _, _, _)
read_loop_none(f, lc, current_container_index, end_container_index, start_in_buf, count, buf) ==
    IF current_container_index > end_container_index
    THEN [ok |-> FALSE, err |-> ERR_NONE, data |-> buf, lc |-> lc]
    ELSE IF current_container_index >= Len(lc)
    THEN [ok |-> FALSE, err |-> WTAP_ERR_INTERNAL, data |-> buf, lc |-> lc]
    ELSE
    LET current_container == lc[current_container_index + 1]
        copied    == Len(buf)
        data_left == current_container.real_length - start_in_buf
        from      == current_container.infile_data_start + start_in_buf
        n         == IF data_left < count - copied THEN data_left ELSE count - copied
        r         == wtap_read_bytes_or_eof(f, from, n)
    IN  IF ~r.ok THEN [ok |-> FALSE, err |-> r.err, data |-> buf, lc |-> lc]
        ELSE IF data_left < count - copied
        THEN read_loop_none(f, lc, current_container_index + 1, end_container_index,
                            0, count, buf \o r.data)
        ELSE [ok |-> TRUE, err |-> ERR_NONE, data |-> buf \o r.data, lc |-> lc]

\* the loop of case BLF_COMPRESSION_ZLIB
RECURSIVE read_loop_zlib(_, _, _, _, _, _, _)
\* one turn of it, after blf_pull_logcontainer_into_memory has returned p
read_loop_zlib_pulled(f, p, current_container_index, end_container_index, start_in_buf, count, buf) ==
    IF ~p.ok THEN [ok |-> FALSE, err |-> p.err, data |-> buf, lc |-> p.lc]
    ELSE
    LET current_container == p.lc[current_container_index + 1]
        copied    == Len(buf)
        data_left == current_container.real_length - start_in_buf
    IN  IF current_container.real_data = NULL
        THEN [ok |-> FALSE, err |-> WTAP_ERR_INTERNAL, data |-> buf, lc |-> p.lc]
        ELSE IF data_left < count - copied
        THEN read_loop_zlib(f, p.lc, current_container_index + 1, end_container_index,
                            0, count,
                            buf \o Slice(current_container.real_data, start_in_buf, data_left))
        ELSE [ok |-> TRUE, err |-> ERR_NONE,
              data |-> buf \o Slice(current_container.real_data, start_in_buf,
                                    count - copied),
              lc |-> p.lc]

read_loop_zlib(f, lc, current_container_index, end_container_index, start_in_buf, count, buf) ==
    IF current_container_index > end_container_index
    THEN [ok |-> FALSE, err |-> WTAP_ERR_INTERNAL, data |-> buf, lc |-> lc]
    ELSE read_loop_zlib_pulled(
             f, blf_pull_logcontainer_into_memory(f, lc, current_container_index),
             current_container_index, end_container_index, start_in_buf, count, buf)

\* blf_read_bytes_or_eof: count bytes of the virtual stream at real_pos
blf_read_bytes_or_eof(f, lc, real_pos, count) ==
    LET start_container_index == blf_find_logcontainer_for_address(lc, real_pos)
        end_container_index   == blf_find_logcontainer_for_address(lc, real_pos + count - 1)
        fail(e) == [ok |-> FALSE, err |-> e, data |-> <<>>, lc |-> lc]
    IN  IF start_container_index = -1 THEN fail(ERR_NONE)
        ELSE IF end_container_index = -1 THEN fail(ERR_NONE)
        ELSE
        LET start_container == lc[start_container_index + 1]
            start_in_buf    == real_pos - start_container.real_start_pos
        IN  CASE start_container.compression_method = BLF_COMPRESSION_NONE ->
                   read_loop_none(f, lc, start_container_index, end_container_index,
                                  start_in_buf, count, <<>>)
              [] start_container.compression_method = BLF_COMPRESSION_ZLIB ->
                   read_loop_zlib(f, lc, start_container_index, end_container_index,
                                  start_in_buf, count, <<>>)
              [] OTHER -> fail(WTAP_ERR_UNSUPPORTED)

\* blf_read_bytes, on what blf_read_bytes_or_eof returned: a failure without
\* an error code is a short read
short_read(r) ==
    IF ~r.ok /\ r.err = ERR_NONE THEN [r EXCEPT !.err = WTAP_ERR_SHORT_READ] ELSE r

\* blf_read_bytes
blf_read_bytes(f, lc, real_pos, count) ==
    short_read(blf_read_bytes_or_eof(f, lc, real_pos, count))

(***************************************************************************)
(* Interface registry                                                      *)
(***************************************************************************)
WTAP_ENCAP_NONE == -2

WTAP_ENCAP_PER_PACKET == -1

WTAP_ENCAP_ETHERNET == 1

WTAP_ENCAP_IEEE_802_11 == 20

WTAP_ENCAP_FLEXRAY == 106

WTAP_ENCAP_LIN == 107

WTAP_ENCAP_SOCKETCAN == 125

WTAP_ENCAP_WIRESHARK_UPPER_PDU == 155

UINT16_MAX == 65535

\* a key that leaves the channel out
blf_calc_key_value_no_channel(pkt_encap, channel, hwchannel) ==
    << 0, hwchannel % LimbBase, pkt_encap % LimbBase, (pkt_encap \div LimbBase) % LimbBase >>

\* ((gint64)pkt_encap << 32) | ((gint64)hwchannel << 16) | channel, as limbs:
\* the three fields fill disjoint bits of the 64-bit key
blf_calc_key_value(pkt_encap, channel, hwchannel) ==
    << channel % LimbBase, hwchannel % LimbBase,
       pkt_encap % LimbBase, (pkt_encap \div LimbBase) % LimbBase >>

\* the decimal digits of n >= 0 (printf %u), as characters
RECURSIVE Decimal(_)
Decimal(n) == IF n < 10 THEN <<48 + n>> ELSE Decimal(n \div 10) \o <<48 + (n % 10)>>

\* printf %d
SignedDecimal(n) == IF n < 0 THEN <<45>> \o Decimal(0 - n) ELSE Decimal(n)

\* add_interface_name: the OPT_IDB_NAME of a new interface
add_interface_name(pkt_encap, channel, hwchannel, name) ==
    IF name # NULL THEN name
    ELSE CASE pkt_encap = WTAP_ENCAP_ETHERNET ->
                IF hwchannel = UINT16_MAX
                THEN <<69, 84, 72, 45>> \o Decimal(channel)
                ELSE <<69, 84, 72, 45>> \o Decimal(channel) \o <<45>> \o Decimal(hwchannel)
           [] pkt_encap = WTAP_ENCAP_IEEE_802_11 -> <<87, 76, 65, 78, 45>> \o Decimal(channel)
           [] pkt_encap = WTAP_ENCAP_FLEXRAY -> <<70, 82, 45>> \o Decimal(channel)
           [] pkt_encap = WTAP_ENCAP_LIN -> <<76, 73, 78, 45>> \o Decimal(channel)
           [] pkt_encap = WTAP_ENCAP_SOCKETCAN -> <<67, 65, 78, 45>> \o Decimal(channel)
           [] OTHER -> <<69, 78, 67, 65, 80, 95>> \o SignedDecimal(pkt_encap)
                         \o <<45>> \o Decimal(channel)

\* an interface added without a descriptor for the host
blf_add_interface_no_descriptor(b, pkt_encap, channel, hwchannel, name) ==
    LET file_encap == IF b.file_encap = WTAP_ENCAP_NONE THEN pkt_encap
                      ELSE IF b.file_encap # pkt_encap THEN WTAP_ENCAP_PER_PACKET
                      ELSE b.file_encap
        key  == blf_calc_key_value(pkt_encap, channel, hwchannel)
        item == [channel |-> channel % LimbBase, hwchannel |-> hwchannel,
                 pkt_encap |-> pkt_encap, interface_id |-> b.next_interface_id]
    IN  [id |-> item.interface_id,
         b  |-> [b EXCEPT !.file_encap = file_encap,
                          !.next_interface_id = @ + 1,
                          !.channel_to_iface_ht = (key :> item) @@ @]]

\* an interface added with the file's encapsulation set to its own
blf_add_interface_last_encap(b, pkt_encap, channel, hwchannel, name) ==
    LET int_data == [wtap_encap |-> pkt_encap,
                     name |-> add_interface_name(pkt_encap, channel, hwchannel, name)]
        key  == blf_calc_key_value(pkt_encap, channel, hwchannel)
        item == [channel |-> channel % LimbBase, hwchannel |-> hwchannel,
                 pkt_encap |-> pkt_encap, interface_id |-> b.next_interface_id]
    IN  [id |-> item.interface_id,
         b  |-> [b EXCEPT !.interface_data = Append(@, int_data),
                          !.file_encap = pkt_encap,
                          !.next_interface_id = @ + 1,
                          !.channel_to_iface_ht = (key :> item) @@ @]]

\* blf_add_interface on session b: the new id and the session afterwards
blf_add_interface(b, pkt_encap, channel, hwchannel, name) ==
    LET int_data == [wtap_encap |-> pkt_encap,
                     name |-> add_interface_name(pkt_encap, channel, hwchannel, name)]
        file_encap == IF b.file_encap = WTAP_ENCAP_NONE THEN pkt_encap
                      ELSE IF b.file_encap # pkt_encap THEN WTAP_ENCAP_PER_PACKET
                      ELSE b.file_encap
        key  == blf_calc_key_value(pkt_encap, channel, hwchannel)
        item == [channel |-> channel % LimbBase, hwchannel |-> hwchannel,
                 pkt_encap |-> pkt_encap, interface_id |-> b.next_interface_id]
    IN  [id |-> item.interface_id,
         b  |-> [b EXCEPT !.interface_data = Append(@, int_data),
                          !.file_encap = file_encap,
                          !.next_interface_id = @ + 1,
                          !.channel_to_iface_ht = (key :> item) @@ @]]

\* a lookup that adds an interface whether or not the key is known
blf_lookup_interface_always_adds(b, pkt_encap, channel, hwchannel, name) ==
    blf_add_interface(b, pkt_encap, channel, hwchannel, name)

\* blf_lookup_interface
blf_lookup_interface(b, pkt_encap, channel, hwchannel, name) ==
    LET key == blf_calc_key_value(pkt_encap, channel, hwchannel)
    IN  IF key \in DOMAIN b.channel_to_iface_ht
        THEN [id |-> b.channel_to_iface_ht[key].interface_id, b |-> b]
        ELSE blf_add_interface(b, pkt_encap, channel, hwchannel, name)

(***************************************************************************)
(* Record initialisation                                                   *)
(***************************************************************************)
BLF_TIMESTAMP_RESOLUTION_10US == 1

BLF_TIMESTAMP_RESOLUTION_1NS == 2

\* the switch on flags of blf_init_rec: the guint64 object_timestamp after it
timestamp_ns(flags, object_timestamp, start_offset_ns) ==
    CASE flags = BLF_TIMESTAMP_RESOLUTION_10US ->
           Wrap64(AddLimbs(Wrap64(MulLimbs(object_timestamp, 10000, 0)), start_offset_ns))
      [] flags = BLF_TIMESTAMP_RESOLUTION_1NS ->
           Wrap64(AddLimbs(object_timestamp, start_offset_ns))
      [] OTHER -> Zero64

timestamp_prec(flags) ==
    IF flags = BLF_TIMESTAMP_RESOLUTION_10US THEN "WTAP_TSPREC_10_USEC" ELSE "WTAP_TSPREC_NSEC"

\* object_timestamp / (1000 * 1000 * 1000) and object_timestamp % (1000 * 1000 * 1000):
\* 10^9 = 31250 * 32000, divided out in two steps
nstime(total) ==
    LET d1 == DivLimbs(total, 31250)
        d2 == DivLimbs(d1.q, 32000)
    IN  [secs |-> d2.q, nsecs |-> d2.r * 31250 + d1.r]

\* blf_init_rec: the packet record and the session afterwards
blf_init_rec(b, flags, object_timestamp, pkt_encap, channel, hwchannel, caplen, len) ==
    LET l == blf_lookup_interface(b, pkt_encap, channel, hwchannel, NULL)
    IN  [rec |-> [rec_type     |-> "REC_TYPE_PACKET",
                  tsprec       |-> timestamp_prec(flags),
                  ts           |-> nstime(timestamp_ns(flags, object_timestamp,
                                                       b.start_offset_ns)),
                  caplen       |-> caplen,
                  len          |-> len,
                  pkt_encap    |-> pkt_encap,
                  interface_id |-> l.id,
                  options      |-> <<>>],
         b   |-> l.b]

BLF_DIR_RX == 0

BLF_DIR_TX == 1

BLF_DIR_TX_RQ == 2

\* blf_add_direction_option: option 0x0002 (EPB flags) with 1 inbound, 2 outbound
blf_add_direction_option(rec, direction) ==
    LET tmp == CASE direction = BLF_DIR_RX -> 1
                 [] direction = BLF_DIR_TX \/ direction = BLF_DIR_TX_RQ -> 2
                 [] OTHER -> 0
    IN  [rec EXCEPT !.options = Append(@, <<2, tmp>>)]

\* the rec of a call that returned no record
NoRec ==
    [rec_type |-> "NONE", tsprec |-> "NONE", ts |-> [secs |-> Zero64, nsecs |-> 0],
     caplen |-> 0, len |-> 0, pkt_encap |-> 0, interface_id |-> 0, options |-> <<>>]

(***************************************************************************)
(* The record buffer (Buffer): its memory and first_free; start is 0       *)
(***************************************************************************)
\* ws_buffer_append: bytes written at first_free, which moves past them
ws_buffer_append(buf, bytes) ==
    [data |-> SubSeq(buf.data, 1, buf.first_free) \o bytes
                \o SubSeq(buf.data, buf.first_free + Len(bytes) + 1, Len(buf.data)),
     first_free |-> buf.first_free + Len(bytes)]

ws_buffer_length(buf) == buf.first_free

\* wtap_buffer_append_epdu_string: tag, padded length, the string, zero padding
wtap_buffer_append_epdu_string(buf, epdu_tag, val) ==
    LET pad_len == IF Len(val) % 4 # 0 THEN 4 - (Len(val) % 4) ELSE 0
    IN  ws_buffer_append(buf, <<epdu_tag \div 256, epdu_tag % 256,
                                (Len(val) + pad_len) \div 256, (Len(val) + pad_len) % 256>>
                               \o val \o Zeros(pad_len))

wtap_buffer_append_epdu_end(buf) == ws_buffer_append(buf, <<0, 0, 0, 0>>)

EXP_PDU_TAG_DISSECTOR_NAME == 12

EXP_PDU_TAG_COL_PROT_TEXT == 33

EXP_PDU_TAG_COL_INFO_TEXT == 36

(***************************************************************************)
(* Per-type decoders. Each returns ok/err, the record, the buffer and the  *)
(* session afterwards (its cache and registry may have grown).             *)
(***************************************************************************)
\* sizeof(blf_canmessage_t): channel, flags, dlc, id
SIZEOF_CANMESSAGE == 8

\* sizeof(blf_canmessage2_trailer_t)
SIZEOF_CANMESSAGE2_TRAILER == 8

\* sizeof(blf_apptext_t): source, reservedAppText1, textLength, reservedAppText2
SIZEOF_APPTEXT == 16

BLF_CANMESSAGE_FLAG_TX == 1

BLF_CANMESSAGE_FLAG_RTR == 128

CAN_RTR_FLAG == 1073741824

\* x & flag == flag, for a one-bit flag
HasBit(x, flag) == (x \div flag) % 2 = 1

\* x | flag, for a one-bit flag
SetBit(x, flag) == IF HasBit(x, flag) THEN x ELSE x + flag

Decoded(ok, err, rec, buf, b) == [ok |-> ok, err |-> err, rec |-> rec, buf |-> buf, b |-> b]

WithContainers(b, lc) == [b EXCEPT !.log_containers = lc]

\* blf_can_fill_buf_and_rec from the read of the payload on, which returned r
\* when payload_length_valid > 0
blf_can_fill_buf_and_rec_payload(b, buf1, r, payload_length, payload_length_valid, flags, object_timestamp, channel) ==
    LET b1   == IF payload_length_valid > 0 THEN WithContainers(b, r.lc) ELSE b
        buf2 == IF payload_length_valid > 0 THEN ws_buffer_append(buf1, r.data) ELSE buf1
    IN  IF payload_length_valid > 0 /\ ~r.ok THEN Decoded(FALSE, r.err, NoRec, buf1, b1)
        ELSE LET i == blf_init_rec(b1, flags, object_timestamp, WTAP_ENCAP_SOCKETCAN,
                                   channel, UINT16_MAX, 8 + payload_length_valid,
                                   8 + payload_length)
             IN  Decoded(TRUE, ERR_NONE, i.rec, buf2, i.b)

\* blf_can_fill_buf_and_rec
blf_can_fill_buf_and_rec(f, b, buf, canid, payload_length, payload_length_valid, start_position, flags, object_timestamp, channel) ==
    LET tmpbuf == << (canid \div 16777216) % 256, (canid \div 65536) % 256,
                     (canid \div 256) % 256, canid % 256, payload_length, 0, 0, 0 >>
    IN  blf_can_fill_buf_and_rec_payload(
            b, ws_buffer_append(buf, tmpbuf),
            blf_read_bytes(f, b.log_containers, start_position, payload_length_valid),
            payload_length, payload_length_valid, flags, object_timestamp, channel)

\* blf_read_canmessage from the read of the CAN_MESSAGE2 trailer on, which
\* returned t when can_message2; c is what blf_can_fill_buf_and_rec returned
blf_read_canmessage_trailer(c, t, dir, can_message2) ==
    IF can_message2 /\ ~t.ok
    THEN Decoded(FALSE, t.err, c.rec, c.buf, WithContainers(c.b, t.lc))
    ELSE Decoded(TRUE, ERR_NONE, blf_add_direction_option(c.rec, dir), c.buf,
                 IF can_message2 THEN WithContainers(c.b, t.lc) ELSE c.b)

\* blf_read_canmessage after blf_can_fill_buf_and_rec has returned c
blf_read_canmessage_filled(f, c, block_start, data_start, object_length, dir, can_message2) ==
    IF ~c.ok THEN c
    ELSE IF can_message2 /\ object_length < (data_start - block_start)
                               + SIZEOF_CANMESSAGE + 8 + SIZEOF_CANMESSAGE2_TRAILER
         THEN Decoded(FALSE, WTAP_ERR_BAD_FILE, c.rec, c.buf, c.b)
    ELSE blf_read_canmessage_trailer(
             c, blf_read_bytes(f, c.b.log_containers, data_start + SIZEOF_CANMESSAGE + 8,
                               SIZEOF_CANMESSAGE2_TRAILER),
             dir, can_message2)

\* blf_read_canmessage after the read of the blf_canmessage_t has returned h
blf_read_canmessage_header(f, b, buf, h, block_start, data_start, object_length, flags, object_timestamp, can_message2) ==
    LET b1 == WithContainers(b, h.lc)
    IN  IF ~h.ok THEN Decoded(FALSE, h.err, NoRec, buf, b1)
        ELSE
        LET channel  == GUINT16_FROM_LE(h.data, 0)
            cflags   == h.data[3]
            dlc      == h.data[4] % 16
            id       == GUINT32_FROM_LE(h.data, 4)
            rtr      == HasBit(cflags, BLF_CANMESSAGE_FLAG_RTR)
            payload_length == IF rtr THEN 0 ELSE IF dlc > 8 THEN 8 ELSE dlc
            canid    == IF rtr THEN SetBit(id, CAN_RTR_FLAG) ELSE id
            dir == IF HasBit(cflags, BLF_CANMESSAGE_FLAG_TX) THEN BLF_DIR_TX ELSE BLF_DIR_RX
        IN  blf_read_canmessage_filled(
                f, blf_can_fill_buf_and_rec(f, b1, buf, canid, payload_length, payload_length,
                                            data_start + SIZEOF_CANMESSAGE, flags,
                                            object_timestamp, channel),
                block_start, data_start, object_length, dir, can_message2)

\* blf_read_canmessage
blf_read_canmessage(f, b, buf, block_start, data_start, object_length, flags, object_timestamp, can_message2) ==
    IF object_length < (data_start - block_start) + SIZEOF_CANMESSAGE
    THEN Decoded(FALSE, WTAP_ERR_BAD_FILE, NoRec, buf, b)
    ELSE blf_read_canmessage_header(
             f, b, buf, blf_read_bytes(f, b.log_containers, data_start, SIZEOF_CANMESSAGE),
             block_start, data_start, object_length, flags, object_timestamp, can_message2)

\* sizeof(blf_canfdmessage_t): channel, flags, dlc, id, frameLength_in_ns,
\* arbitration_bit_count, canfdflags, validDataBytes, reservedCanFdMessage1,
\* reservedCanFdMessage2
SIZEOF_CANFDMESSAGE == 20

\* sizeof(blf_canfdmessage64_t): channel, dlc, validDataBytes, txCount, id,
\* frameLength_in_ns, flags, btrCfgArb, btrCfgData, timeOffsetBrsNs,
\* timeOffsetCrcDelNs, bitCount, dir, extDataOffset, crc
SIZEOF_CANFDMESSAGE64 == 40

BLF_CANFDMESSAGE_CANFDFLAG_EDL == 1

BLF_CANFDMESSAGE64_FLAG_REMOTE_FRAME == 16

BLF_CANFDMESSAGE64_FLAG_EDL == 4096

\* indexed by dlc + 1
can_dlc_to_length == <<0, 1, 2, 3, 4, 5, 6, 7, 8, 8, 8, 8, 8, 8, 8, 8>>

canfd_dlc_to_length == <<0, 1, 2, 3, 4, 5, 6, 7, 8, 12, 16, 20, 24, 32, 48, 64>>

\* the end of both CAN FD decoders, after blf_can_fill_buf_and_rec has
\* returned c: the direction option
blf_read_canfdmessage_filled(c, dir) ==
    IF ~c.ok THEN c
    ELSE Decoded(TRUE, ERR_NONE, blf_add_direction_option(c.rec, dir), c.buf, c.b)

\* blf_read_canfdmessage after the read of the blf_canfdmessage_t has returned h
blf_read_canfdmessage_header(f, b, buf, h, block_start, data_start, object_length, flags, object_timestamp) ==
    LET b1 == WithContainers(b, h.lc)
    IN  IF ~h.ok THEN Decoded(FALSE, h.err, NoRec, buf, b1)
        ELSE
        LET channel  == GUINT16_FROM_LE(h.data, 0)
            cflags   == h.data[3]
            dlc      == h.data[4] % 16
            id       == GUINT32_FROM_LE(h.data, 4)
            canfdflags == h.data[14]
            validDataBytes == h.data[15]
            canfd    == HasBit(canfdflags, BLF_CANFDMESSAGE_CANFDFLAG_EDL)
            from_dlc == IF canfd THEN canfd_dlc_to_length[dlc + 1]
                        ELSE can_dlc_to_length[dlc + 1]
            clamped  == IF from_dlc > validDataBytes THEN validDataBytes ELSE from_dlc
            rtr      == ~canfd /\ HasBit(cflags, BLF_CANMESSAGE_FLAG_RTR)
            payload_length == IF rtr THEN 0 ELSE clamped
            canid    == IF rtr THEN SetBit(id, CAN_RTR_FLAG) ELSE id
            payload_length_valid ==
                IF payload_length > object_length - (data_start - block_start)
                                      + SIZEOF_CANFDMESSAGE
                THEN (object_length - (data_start - block_start)) % 256
                ELSE payload_length
            dir == IF HasBit(cflags, BLF_CANMESSAGE_FLAG_TX) THEN BLF_DIR_TX ELSE BLF_DIR_RX
        IN  blf_read_canfdmessage_filled(
                blf_can_fill_buf_and_rec(f, b1, buf, canid, payload_length,
                                         payload_length_valid,
                                         data_start + SIZEOF_CANFDMESSAGE, flags,
                                         object_timestamp, channel),
                dir)

\* blf_read_canfdmessage
blf_read_canfdmessage(f, b, buf, block_start, data_start, object_length, flags, object_timestamp) ==
    IF object_length < (data_start - block_start) + SIZEOF_CANFDMESSAGE
    THEN Decoded(FALSE, WTAP_ERR_BAD_FILE, NoRec, buf, b)
    ELSE blf_read_canfdmessage_header(
             f, b, buf, blf_read_bytes(f, b.log_containers, data_start, SIZEOF_CANFDMESSAGE),
             block_start, data_start, object_length, flags, object_timestamp)

\* blf_read_canfdmessage64 after the read of the blf_canfdmessage64_t has
\* returned h
blf_read_canfdmessage64_header(f, b, buf, h, block_start, data_start, object_length, flags, object_timestamp) ==
    LET b1 == WithContainers(b, h.lc)
    IN  IF ~h.ok THEN Decoded(FALSE, h.err, NoRec, buf, b1)
        ELSE
        LET channel  == h.data[1]
            dlc      == h.data[2] % 16
            validDataBytes == h.data[3]
            id       == GUINT32_FROM_LE(h.data, 4)
            hflags   == GUINT32_FROM_LE(h.data, 12)
            canfd    == HasBit(hflags, BLF_CANFDMESSAGE64_FLAG_EDL)
            from_dlc == IF canfd THEN canfd_dlc_to_length[dlc + 1]
                        ELSE can_dlc_to_length[dlc + 1]
            clamped  == IF from_dlc > validDataBytes THEN validDataBytes ELSE from_dlc
            rtr      == ~canfd /\ HasBit(hflags, BLF_CANFDMESSAGE64_FLAG_REMOTE_FRAME)
            payload_length == IF rtr THEN 0 ELSE clamped
            canid    == IF rtr THEN SetBit(id, CAN_RTR_FLAG) ELSE id
            payload_length_valid ==
                IF payload_length > object_length - (data_start - block_start)
                THEN (object_length - (data_start - block_start)) % 256
                ELSE payload_length
        IN  blf_read_canfdmessage_filled(
                blf_can_fill_buf_and_rec(f, b1, buf, canid, payload_length,
                                         payload_length_valid,
                                         data_start + SIZEOF_CANFDMESSAGE64, flags,
                                         object_timestamp, channel),
                h.data[35])

\* blf_read_canfdmessage64
blf_read_canfdmessage64(f, b, buf, block_start, data_start, object_length, flags, object_timestamp) ==
    IF object_length < (data_start - block_start) + SIZEOF_CANFDMESSAGE64
    THEN Decoded(FALSE, WTAP_ERR_BAD_FILE, NoRec, buf, b)
    ELSE blf_read_canfdmessage64_header(
             f, b, buf,
             blf_read_bytes(f, b.log_containers, data_start, SIZEOF_CANFDMESSAGE64),
             block_start, data_start, object_length, flags, object_timestamp)

\* sizeof(blf_ethernetframeheader_t): src_addr, channel, dst_addr, direction,
\* ethtype, tpid, tci, payloadlength, res
SIZEOF_ETHERNETFRAMEHEADER == 32

\* sizeof(blf_ethernet_status_t): channel, flags, linkStatus, ethernetPhy,
\* duplex, mdi, connector, clockMode, pairs, hardwareChannel, bitrate
SIZEOF_ETHERNET_STATUS == 16

BLF_ETH_STATUS_HARDWARECHANNEL == 256

OPT_PKT_QUEUE == 6

\* the two bytes of a 16-bit value, high byte first
BE16(x) == << (x \div 256) % 256, x % 256 >>

\* blf_read_ethernetframe from the read of the payload on, which returned r
blf_read_ethernetframe_payload(b, buf1, r, caplen, channel, direction, flags, object_timestamp) ==
    IF ~r.ok THEN Decoded(FALSE, r.err, NoRec, buf1, WithContainers(b, r.lc))
    ELSE LET i == blf_init_rec(WithContainers(b, r.lc), flags, object_timestamp,
                               WTAP_ENCAP_ETHERNET, channel, UINT16_MAX, caplen, caplen)
         IN  Decoded(TRUE, ERR_NONE, blf_add_direction_option(i.rec, direction),
                     ws_buffer_append(buf1, r.data), i.b)

\* blf_read_ethernetframe after the read of the blf_ethernetframeheader_t has
\* returned h
blf_read_ethernetframe_header(f, b, buf, h, data_start, flags, object_timestamp) ==
    LET b1 == WithContainers(b, h.lc)
    IN  IF ~h.ok THEN Decoded(FALSE, h.err, NoRec, buf, b1)
        ELSE
        LET src_addr  == SubSeq(h.data, 1, 6)
            channel   == GUINT16_FROM_LE(h.data, 6)
            dst_addr  == SubSeq(h.data, 9, 14)
            direction == GUINT16_FROM_LE(h.data, 14)
            ethtype   == GUINT16_FROM_LE(h.data, 16)
            tpid      == GUINT16_FROM_LE(h.data, 18)
            tci       == GUINT16_FROM_LE(h.data, 20)
            payloadlength == GUINT16_FROM_LE(h.data, 22)
            tagged    == tpid # 0 /\ tci # 0
            tmpbuf    == IF tagged
                         THEN dst_addr \o src_addr \o BE16(tpid) \o BE16(tci) \o BE16(ethtype)
                         ELSE dst_addr \o src_addr \o BE16(ethtype)
        IN  blf_read_ethernetframe_payload(
                b1, ws_buffer_append(buf, tmpbuf),
                blf_read_bytes(f, b1.log_containers, data_start + SIZEOF_ETHERNETFRAMEHEADER,
                               payloadlength),
                Len(tmpbuf) + payloadlength, channel, direction, flags, object_timestamp)

\* blf_read_ethernetframe
blf_read_ethernetframe(f, b, buf, block_start, data_start, object_length, flags, object_timestamp) ==
    IF object_length < (data_start - block_start) + SIZEOF_ETHERNETFRAMEHEADER
    THEN Decoded(FALSE, WTAP_ERR_BAD_FILE, NoRec, buf, b)
    ELSE blf_read_ethernetframe_header(
             f, b, buf,
             blf_read_bytes(f, b.log_containers, data_start, SIZEOF_ETHERNETFRAMEHEADER),
             data_start, flags, object_timestamp)

\* "STATUS-ETH-%u-%u"
ethernet_status_iface_name(channel, hardwareChannel) ==
    <<83, 84, 65, 84, 85, 83, 45, 69, 84, 72, 45>> \o Decimal(channel) \o <<45>> \o Decimal(hardwareChannel)

\* a status record put on the interface of the Ethernet frames of its channel
blf_read_ethernet_status_rec_on_ethernet(l, buf, channel, sflags, hardwareChannel, flags, object_timestamp) ==
    LET i == blf_init_rec(l.b, flags, object_timestamp, WTAP_ENCAP_ETHERNET,
                          channel, UINT16_MAX,
                          ws_buffer_length(buf), ws_buffer_length(buf))
    IN  Decoded(TRUE, ERR_NONE,
                IF HasBit(sflags, BLF_ETH_STATUS_HARDWARECHANNEL)
                THEN [i.rec EXCEPT !.options = Append(@, <<OPT_PKT_QUEUE, hardwareChannel>>),
                                   !.pkt_encap = WTAP_ENCAP_WIRESHARK_UPPER_PDU]
                ELSE [i.rec EXCEPT !.pkt_encap = WTAP_ENCAP_WIRESHARK_UPPER_PDU],
                buf, i.b)

\* blf_read_ethernet_status from blf_init_rec on, after blf_lookup_interface
\* has returned l for the interface of the status
blf_read_ethernet_status_rec(l, buf, channel, sflags, hardwareChannel, flags, object_timestamp) ==
    LET i == blf_init_rec(l.b, flags, object_timestamp, WTAP_ENCAP_WIRESHARK_UPPER_PDU,
                          channel, hardwareChannel,
                          ws_buffer_length(buf), ws_buffer_length(buf))
    IN  Decoded(TRUE, ERR_NONE,
                IF HasBit(sflags, BLF_ETH_STATUS_HARDWARECHANNEL)
                THEN [i.rec EXCEPT !.options = Append(@, <<OPT_PKT_QUEUE, hardwareChannel>>)]
                ELSE i.rec,
                buf, i.b)

\* blf_read_ethernet_status after the read of the blf_ethernet_status_t has
\* returned h
blf_read_ethernet_status_header(b, buf, h, flags, object_timestamp) ==
    LET b1 == WithContainers(b, h.lc)
    IN  IF ~h.ok THEN Decoded(FALSE, h.err, NoRec, buf, b1)
        ELSE
        LET channel == GUINT16_FROM_LE(h.data, 0)
            sflags  == GUINT16_FROM_LE(h.data, 2)
            hardwareChannel == h.data[12]
            bitrate == SubSeq(h.data, 13, 16)
            tmpbuf  == BE16(channel) \o BE16(sflags) \o SubSeq(h.data, 5, 12)
                         \o << bitrate[4], bitrate[3], bitrate[2], bitrate[1] >>
        IN  blf_read_ethernet_status_rec(
                blf_lookup_interface(b1, WTAP_ENCAP_WIRESHARK_UPPER_PDU, channel,
                                     hardwareChannel,
                                     ethernet_status_iface_name(channel, hardwareChannel)),
                ws_buffer_append(
                    wtap_buffer_append_epdu_end(
                        wtap_buffer_append_epdu_string(buf, EXP_PDU_TAG_DISSECTOR_NAME,
                                                       <<98, 108, 102, 45, 101, 116, 104, 101, 114, 110, 101, 116, 115, 116, 97, 116, 117, 115, 45, 111, 98, 106>>)),
                    tmpbuf),
                channel, sflags, hardwareChannel, flags, object_timestamp)

\* blf_read_ethernet_status
blf_read_ethernet_status(f, b, buf, block_start, data_start, object_length, flags, object_timestamp) ==
    IF object_length < (data_start - block_start) + SIZEOF_ETHERNET_STATUS
    THEN Decoded(FALSE, WTAP_ERR_BAD_FILE, NoRec, buf, b)
    ELSE blf_read_ethernet_status_header(
             b, buf, blf_read_bytes(f, b.log_containers, data_start, SIZEOF_ETHERNET_STATUS),
             flags, object_timestamp)

BLF_APPTEXT_COMMENT == 0

BLF_APPTEXT_CHANNEL == 1

BLF_APPTEXT_METADATA == 2

BLF_APPTEXT_ATTACHMENT == 3

BLF_APPTEXT_TRACELINE == 4

BLF_APPTEXT_CONT == 254

BLF_APPTEXT_FAILED == 255

BLF_BUSTYPE_CAN == 1

BLF_BUSTYPE_LIN == 5

BLF_BUSTYPE_FLEXRAY == 7

BLF_BUSTYPE_ETHERNET == 11

BLF_BUSTYPE_WLAN == 13

\* the C string in text: the bytes before the first NUL
RECURSIVE CString(_)
CString(text) ==
    IF text = <<>> \/ text[1] = 0 THEN <<>> ELSE <<text[1]>> \o CString(Tail(text))

\* the bytes of string str before its first ';' (all of it when it has none)
RECURSIVE UpToSemicolon(_)
UpToSemicolon(str) ==
    IF str = <<>> \/ str[1] = 59 THEN <<>> ELSE <<str[1]>> \o UpToSemicolon(Tail(str))

\* g_strsplit_set(text, ";", -1): whether tokens[1] exists, and tokens[1]
strsplit_token1(text) ==
    LET str   == CString(text)
        first == UpToSemicolon(str)
        rest  == SubSeq(str, Len(first) + 2, Len(str))
    IN  [exists |-> Len(first) < Len(str), token |-> UpToSemicolon(rest)]

\* the switch on the bus type of an APP_TEXT channel object
apptext_channel_encap(bustype) ==
    CASE bustype = BLF_BUSTYPE_CAN      -> WTAP_ENCAP_SOCKETCAN
      [] bustype = BLF_BUSTYPE_FLEXRAY  -> WTAP_ENCAP_FLEXRAY
      [] bustype = BLF_BUSTYPE_LIN      -> WTAP_ENCAP_LIN
      [] bustype = BLF_BUSTYPE_ETHERNET -> WTAP_ENCAP_ETHERNET
      [] bustype = BLF_BUSTYPE_WLAN     -> WTAP_ENCAP_IEEE_802_11
      [] OTHER                          -> -1

\* the exported-PDU wrapper of an APP_TEXT record with info column info
apptext_epdu(buf, info) ==
    wtap_buffer_append_epdu_end(
      wtap_buffer_append_epdu_string(
        wtap_buffer_append_epdu_string(
          wtap_buffer_append_epdu_string(buf, EXP_PDU_TAG_DISSECTOR_NAME,
            <<100, 97, 116, 97, 45, 116, 101, 120, 116, 45, 108, 105, 110, 101, 115>>),
          EXP_PDU_TAG_COL_PROT_TEXT, <<66, 76, 70, 32, 65, 112, 112, 32, 116, 101, 120, 116>>),
        EXP_PDU_TAG_COL_INFO_TEXT, info))

apptext_info(source) ==
    CASE source = BLF_APPTEXT_COMMENT    -> <<67, 111, 109, 109, 101, 110, 116>>
      [] source = BLF_APPTEXT_ATTACHMENT -> <<65, 116, 116, 97, 99, 104, 109, 101, 110, 116>>
      [] source = BLF_APPTEXT_TRACELINE  -> <<84, 114, 97, 99, 101, 32, 108, 105, 110, 101>>
      [] OTHER                           -> <<77, 101, 116, 97, 100, 97, 116, 97>>

AppText(result, err, rec, buf, b) ==
    [result |-> result, err |-> err, rec |-> rec, buf |-> buf, b |-> b]

\* blf_read_apptextmessage after the read of the text has returned t;
\* metadata_cont is the caller's metadata_cont as the function has set it
blf_read_apptextmessage_text(b1, buf, t, source, reserved1, textLength, flags, object_timestamp, metadata_cont) ==
    LET b2   == WithContainers(b1, t.lc)
        text == t.data
    IN  IF ~t.ok THEN AppText(BLF_APPTEXT_FAILED, t.err, NoRec, buf, b2)
        ELSE
        CASE source = BLF_APPTEXT_CHANNEL ->
               LET tok == strsplit_token1(text)
                   channel   == (reserved1 \div 256) % 256
                   pkt_encap == apptext_channel_encap((reserved1 \div 65536) % 256)
               IN  IF ~tok.exists THEN AppText(BLF_APPTEXT_CHANNEL, ERR_NONE, NoRec, buf, b2)
                   ELSE AppText(BLF_APPTEXT_CHANNEL, ERR_NONE, NoRec, buf,
                                blf_lookup_interface(b2, pkt_encap, channel, UINT16_MAX,
                                                     tok.token).b)
          [] source = BLF_APPTEXT_METADATA ->
               LET buf1 == IF metadata_cont # 0
                           THEN [buf EXCEPT !.first_free = metadata_cont]
                           ELSE apptext_epdu(buf, apptext_info(source))
                   buf2 == ws_buffer_append(buf1, text)
               IN  IF (reserved1 % 16777216) > textLength
                   THEN AppText(BLF_APPTEXT_CONT, ERR_NONE, NoRec, buf2, b2)
                   ELSE LET i == blf_init_rec(b2, flags, object_timestamp,
                                     WTAP_ENCAP_WIRESHARK_UPPER_PDU, 0, UINT16_MAX,
                                     ws_buffer_length(buf2), ws_buffer_length(buf2))
                        IN  AppText(BLF_APPTEXT_METADATA, ERR_NONE, i.rec, buf2, i.b)
          [] source \in {BLF_APPTEXT_COMMENT, BLF_APPTEXT_ATTACHMENT, BLF_APPTEXT_TRACELINE} ->
               LET buf1 == apptext_epdu(buf, apptext_info(source))
                   buf2 == ws_buffer_append(buf1, CString(text))
                   i == blf_init_rec(b2, flags, object_timestamp,
                                     WTAP_ENCAP_WIRESHARK_UPPER_PDU, 0, UINT16_MAX,
                                     ws_buffer_length(buf2), ws_buffer_length(buf2))
               IN  AppText(source, ERR_NONE, i.rec, buf2, i.b)
          [] OTHER -> AppText(BLF_APPTEXT_CHANNEL, ERR_NONE, NoRec, buf, b2)

\* blf_read_apptextmessage after the read of the blf_apptext_t has returned h;
\* metadata_cont0 is the caller's metadata_cont
blf_read_apptextmessage_header(f, b, buf, h, data_start, flags, object_timestamp, metadata_cont0) ==
    LET b1 == WithContainers(b, h.lc)
    IN  IF ~h.ok THEN AppText(BLF_APPTEXT_FAILED, h.err, NoRec, buf, b1)
        ELSE
        LET source     == GUINT32_FROM_LE(h.data, 0)
            reserved1  == GUINT32_FROM_LE(h.data, 4)
            textLength == GUINT32_FROM_LE(h.data, 8)
            metadata_cont == IF metadata_cont0 # 0 /\ source # BLF_APPTEXT_METADATA
                             THEN 0 ELSE metadata_cont0
        IN  blf_read_apptextmessage_text(
                b1, buf,
                blf_read_bytes(f, b1.log_containers, data_start + SIZEOF_APPTEXT, textLength),
                source, reserved1, textLength, flags, object_timestamp, metadata_cont)

\* blf_read_apptextmessage
blf_read_apptextmessage(f, b, buf, block_start, data_start, object_length, flags, object_timestamp, metadata_cont0) ==
    IF object_length < (data_start - block_start) + SIZEOF_APPTEXT
    THEN AppText(BLF_APPTEXT_FAILED, WTAP_ERR_BAD_FILE, NoRec, buf, b)
    ELSE blf_read_apptextmessage_header(
             f, b, buf, blf_read_bytes(f, b.log_containers, data_start, SIZEOF_APPTEXT),
             data_start, flags, object_timestamp, metadata_cont0)

(***************************************************************************)
(* The demultiplexer                                                       *)
(***************************************************************************)
\* sizeof(blf_logobjectheader2_t): flags, timestamp_status, reserved,
\* object_version, object_timestamp, original_timestamp
SIZEOF_LOGOBJECTHEADER2 == 24

\* sizeof(blf_logobjectheader3_t): flags, static_size, object_version, object_timestamp
SIZEOF_LOGOBJECTHEADER3 == 16

\* the log object header in what blf_read_bytes_or_eof returned
log_object_header_read(r) ==
    [ok |-> r.ok, err |-> r.err,
     logheader |-> logobjectheader(IF r.ok THEN r.data ELSE Zeros(16)),
     lc |-> r.lc]

\* blf_read_log_object_header, blf_read_log_object_header2 and
\* blf_read_log_object_header3, which differ in the size of the header read
blf_read_log_object_header(f, lc, size, header2_start, data_start) ==
    IF data_start - header2_start < size
    THEN [ok |-> FALSE, err |-> WTAP_ERR_BAD_FILE, logheader |-> logobjectheader(Zeros(16)),
          lc |-> lc]
    ELSE log_object_header_read(blf_read_bytes_or_eof(f, lc, header2_start, size))

\* a search that gives up on the first header without the magic
read_find_object_at_no_resync(f, r, start_pos) ==
    IF ~r.ok
    THEN [found |-> FALSE, pos |-> start_pos, header |-> blockheader(Zeros(16)),
          err |-> IF r.err = WTAP_ERR_SHORT_READ THEN ERR_NONE ELSE r.err, lc |-> r.lc]
    ELSE IF SubSeq(r.data, 1, 4) = blf_obj_magic
         THEN [found |-> TRUE, pos |-> start_pos, header |-> blockheader(r.data),
               err |-> ERR_NONE, lc |-> r.lc]
         ELSE [found |-> FALSE, pos |-> start_pos, header |-> blockheader(Zeros(16)),
               err |-> WTAP_ERR_BAD_FILE, lc |-> r.lc]

\* the loop of blf_read_block that finds the next object at or after start_pos
RECURSIVE read_find_object(_, _, _)
\* one turn of it that hands a short read on to its caller
read_find_object_at_keeps_short_read(f, r, start_pos) ==
    IF ~r.ok
    THEN [found |-> FALSE, pos |-> start_pos, header |-> blockheader(Zeros(16)),
          err |-> r.err, lc |-> r.lc]
    ELSE IF SubSeq(r.data, 1, 4) = blf_obj_magic
         THEN [found |-> TRUE, pos |-> start_pos, header |-> blockheader(r.data),
               err |-> ERR_NONE, lc |-> r.lc]
         ELSE read_find_object(f, r.lc, start_pos + 1)

\* one turn of it, after the read of a block header at start_pos has returned r
read_find_object_at(f, r, start_pos) ==
    IF ~r.ok
    THEN [found |-> FALSE, pos |-> start_pos, header |-> blockheader(Zeros(16)),
          err |-> IF r.err = WTAP_ERR_SHORT_READ THEN ERR_NONE ELSE r.err, lc |-> r.lc]
    ELSE IF SubSeq(r.data, 1, 4) = blf_obj_magic
         THEN [found |-> TRUE, pos |-> start_pos, header |-> blockheader(r.data),
               err |-> ERR_NONE, lc |-> r.lc]
         ELSE read_find_object(f, r.lc, start_pos + 1)

read_find_object(f, lc, start_pos) ==
    read_find_object_at(f, blf_read_bytes_or_eof(f, lc, start_pos, SIZEOF_BLOCKHEADER),
                        start_pos)

EmptyBuffer == [data |-> <<>>, first_free |-> 0]

\* what a call of blf_read_block leaves: its return value, err, the record and
\* the first caplen bytes of the buffer, the session, and for every object
\* it located the start, the block header, the log object header and whether it
\* was read, how the object ended, and current_real_seek_pos when it had been
\* handled
Block(ok, err, rec, buf, b, trail) ==
    [ok |-> ok, err |-> err, rec |-> rec,
     payload |-> IF ok THEN SubSeq(buf.data, 1, rec.caplen) ELSE <<>>,
     b |-> b, trail |-> trail]

Located(start_pos, header, logheader, header_read, outcome, b) ==
    [start |-> start_pos, header |-> header, logheader |-> logheader,
     header_read |-> header_read, outcome |-> outcome, seek_pos |-> b.current_real_seek_pos]

\* the size of the log object header of a header type, 0 for an unknown type
logobjectheader_size(header_type) ==
    CASE header_type = BLF_HEADER_TYPE_DEFAULT -> SIZEOF_LOGOBJECTHEADER
      [] header_type = BLF_HEADER_TYPE_2       -> SIZEOF_LOGOBJECTHEADER2
      [] header_type = BLF_HEADER_TYPE_3       -> SIZEOF_LOGOBJECTHEADER3
      [] OTHER                                 -> 0

\* blf_read_block returning: the object at start_pos is added to those located
Handled(trail, start_pos, header, logheader, ok, err, rec, buf, b, header_read, outcome) ==
    Block(ok, err, rec, buf, b,
          Append(trail, Located(start_pos, header, logheader, header_read, outcome, b)))

\* blf_read_block from start_pos0, one turn of its outer loop per recursion.
\* The object types decoded here are CAN_MESSAGE, CAN_MESSAGE2, CAN_FD_MESSAGE,
\* CAN_FD_MESSAGE_64, ETHERNET_FRAME, ETHERNET_STATUS and APP_TEXT; the files
\* of this model hold no object of the other decoded bus types.
RECURSIVE blf_read_block_loop(_, _, _, _, _, _, _)
\* an APP_TEXT case that leaves start_of_last_obj at the last object of a
\* METADATA sequence
blf_read_block_apptext_last_start(f, a, start_pos, header, logheader, next_pos, last_metadata_start1, metadata_cont1, trail) ==
    LET cont == a.result = BLF_APPTEXT_CONT
        last_metadata_start2 ==
            IF cont THEN IF metadata_cont1 = 0 THEN start_pos ELSE last_metadata_start1
            ELSE 0
        metadata_cont2 == IF cont THEN a.buf.first_free ELSE 0
    IN  IF a.result = BLF_APPTEXT_FAILED
        THEN Handled(trail, start_pos, header, logheader,
                     FALSE, a.err, NoRec, a.buf, a.b, TRUE, "failed")
        ELSE IF a.result \in {BLF_APPTEXT_COMMENT, BLF_APPTEXT_METADATA,
                              BLF_APPTEXT_ATTACHMENT, BLF_APPTEXT_TRACELINE}
        THEN Handled(trail, start_pos, header, logheader,
                     TRUE, ERR_NONE, a.rec, a.buf, a.b, TRUE, "decoded")
        ELSE blf_read_block_loop(f, a.b, a.buf, next_pos, last_metadata_start2,
                 metadata_cont2,
                 Append(trail, Located(start_pos, header, logheader, TRUE, "skipped", a.b)))

\* case BLF_OBJTYPE_APP_TEXT after blf_read_apptextmessage has returned a;
\* last_metadata_start1 and metadata_cont1 are the values after the reset
\* for objects that are no APP_TEXT
blf_read_block_apptext(f, a, start_pos, header, logheader, next_pos, last_metadata_start1, metadata_cont1, trail) ==
    LET cont == a.result = BLF_APPTEXT_CONT
        last_metadata_start2 ==
            IF cont THEN IF metadata_cont1 = 0 THEN start_pos ELSE last_metadata_start1
            ELSE 0
        metadata_cont2 == IF cont THEN a.buf.first_free ELSE 0
        b5 == IF a.result = BLF_APPTEXT_METADATA /\ metadata_cont1 # 0
              THEN [a.b EXCEPT !.start_of_last_obj = last_metadata_start1]
              ELSE a.b
    IN  IF a.result = BLF_APPTEXT_FAILED
        THEN Handled(trail, start_pos, header, logheader,
                     FALSE, a.err, NoRec, a.buf, b5, TRUE, "failed")
        ELSE IF a.result \in {BLF_APPTEXT_COMMENT, BLF_APPTEXT_METADATA,
                              BLF_APPTEXT_ATTACHMENT, BLF_APPTEXT_TRACELINE}
        THEN Handled(trail, start_pos, header, logheader,
                     TRUE, ERR_NONE, a.rec, a.buf, b5, TRUE, "decoded")
        ELSE blf_read_block_loop(f, b5, a.buf, next_pos, last_metadata_start2,
                 metadata_cont2,
                 Append(trail, Located(start_pos, header, logheader, TRUE, "skipped", b5)))

\* a CAN_MESSAGE case that leaves the cursor at the object when its decoder fails
blf_read_block_canmessage_rewinds(d, start_pos, header, logheader, trail) ==
    Handled(trail, start_pos, header, logheader, d.ok, d.err, d.rec, d.buf,
            IF d.ok THEN d.b ELSE [d.b EXCEPT !.current_real_seek_pos = start_pos], TRUE,
            IF d.ok THEN "decoded" ELSE "failed")

\* case BLF_OBJTYPE_CAN_MESSAGE and CAN_MESSAGE2 after blf_read_canmessage
\* has returned d
blf_read_block_canmessage(d, start_pos, header, logheader, trail) ==
    Handled(trail, start_pos, header, logheader, d.ok, d.err, d.rec, d.buf, d.b, TRUE,
            IF d.ok THEN "decoded" ELSE "failed")

\* an object handled with an error for object types no decoder handles
blf_read_block_object_rejects_unknown(f, b2, buf, start_pos, header, size, lh, last_metadata_start0, metadata_cont0, trail) ==
    LET b3  == WithContainers(b2, lh.lc)
        logheader == IF size # 0 /\ lh.ok THEN lh.logheader
                     ELSE logobjectheader(Zeros(16))
        flags == logheader.flags
        object_timestamp == logheader.object_timestamp
        b4  == [b3 EXCEPT !.current_real_seek_pos = start_pos + ObjectAdvance(header)]
        in_apptext == header.object_type = BLF_OBJTYPE_APP_TEXT
        metadata_cont1 == IF metadata_cont0 # 0 /\ ~in_apptext THEN 0 ELSE metadata_cont0
        last_metadata_start1 ==
            IF metadata_cont0 # 0 /\ ~in_apptext THEN 0 ELSE last_metadata_start0
        data_start == start_pos + header.header_length
        next_pos   == start_pos + ObjectAdvance(header)
    IN  IF size = 0
        THEN Handled(trail, start_pos, header, logheader,
                     FALSE, WTAP_ERR_UNSUPPORTED, NoRec, buf, b2, FALSE, "header")
        ELSE IF ~lh.ok
        THEN Handled(trail, start_pos, header, logheader,
                     FALSE, lh.err, NoRec, buf, b3, FALSE, "header")
        ELSE
        CASE header.object_type = BLF_OBJTYPE_LOG_CONTAINER ->
               Handled(trail, start_pos, header, logheader,
                       FALSE, WTAP_ERR_UNSUPPORTED, NoRec, buf, b4, TRUE, "failed")
          [] header.object_type \in {BLF_OBJTYPE_CAN_MESSAGE, BLF_OBJTYPE_CAN_MESSAGE2} ->
               blf_read_block_canmessage(
                   blf_read_canmessage(f, b4, buf, start_pos, data_start,
                       header.object_length, flags, object_timestamp,
                       header.object_type = BLF_OBJTYPE_CAN_MESSAGE2),
                   start_pos, header, logheader, trail)
          [] header.object_type = BLF_OBJTYPE_CAN_FD_MESSAGE ->
               blf_read_block_canmessage(
                   blf_read_canfdmessage(f, b4, buf, start_pos, data_start,
                       header.object_length, flags, object_timestamp),
                   start_pos, header, logheader, trail)
          [] header.object_type = BLF_OBJTYPE_CAN_FD_MESSAGE_64 ->
               blf_read_block_canmessage(
                   blf_read_canfdmessage64(f, b4, buf, start_pos, data_start,
                       header.object_length, flags, object_timestamp),
                   start_pos, header, logheader, trail)
          [] header.object_type = BLF_OBJTYPE_ETHERNET_FRAME ->
               blf_read_block_canmessage(
                   blf_read_ethernetframe(f, b4, buf, start_pos, data_start,
                       header.object_length, flags, object_timestamp),
                   start_pos, header, logheader, trail)
          [] header.object_type = BLF_OBJTYPE_ETHERNET_STATUS ->
               blf_read_block_canmessage(
                   blf_read_ethernet_status(f, b4, buf, start_pos, data_start,
                       header.object_length, flags, object_timestamp),
                   start_pos, header, logheader, trail)
          [] in_apptext ->
               blf_read_block_apptext(
                   f, blf_read_apptextmessage(f, b4, buf, start_pos, data_start,
                          header.object_length, flags, object_timestamp, metadata_cont1),
                   start_pos, header, logheader, next_pos, last_metadata_start1,
                   metadata_cont1, trail)
          [] OTHER ->
               Handled(trail, start_pos, header, logheader,
                       FALSE, WTAP_ERR_UNSUPPORTED, NoRec, buf, b4, TRUE, "failed")

\* an object handled without the reset of the METADATA sequence for objects
\* that are no APP_TEXT
blf_read_block_object_keeps_sequence(f, b2, buf, start_pos, header, size, lh, last_metadata_start0, metadata_cont0, trail) ==
    LET b3  == WithContainers(b2, lh.lc)
        logheader == IF size # 0 /\ lh.ok THEN lh.logheader
                     ELSE logobjectheader(Zeros(16))
        flags == logheader.flags
        object_timestamp == logheader.object_timestamp
        b4  == [b3 EXCEPT !.current_real_seek_pos = start_pos + ObjectAdvance(header)]
        in_apptext == header.object_type = BLF_OBJTYPE_APP_TEXT
        metadata_cont1 == metadata_cont0
        last_metadata_start1 == last_metadata_start0
        data_start == start_pos + header.header_length
        next_pos   == start_pos + ObjectAdvance(header)
    IN  IF size = 0
        THEN Handled(trail, start_pos, header, logheader,
                     FALSE, WTAP_ERR_UNSUPPORTED, NoRec, buf, b2, FALSE, "header")
        ELSE IF ~lh.ok
        THEN Handled(trail, start_pos, header, logheader,
                     FALSE, lh.err, NoRec, buf, b3, FALSE, "header")
        ELSE
        CASE header.object_type = BLF_OBJTYPE_LOG_CONTAINER ->
               Handled(trail, start_pos, header, logheader,
                       FALSE, WTAP_ERR_UNSUPPORTED, NoRec, buf, b4, TRUE, "failed")
          [] header.object_type \in {BLF_OBJTYPE_CAN_MESSAGE, BLF_OBJTYPE_CAN_MESSAGE2} ->
               blf_read_block_canmessage(
                   blf_read_canmessage(f, b4, buf, start_pos, data_start,
                       header.object_length, flags, object_timestamp,
                       header.object_type = BLF_OBJTYPE_CAN_MESSAGE2),
                   start_pos, header, logheader, trail)
          [] header.object_type = BLF_OBJTYPE_CAN_FD_MESSAGE ->
               blf_read_block_canmessage(
                   blf_read_canfdmessage(f, b4, buf, start_pos, data_start,
                       header.object_length, flags, object_timestamp),
                   start_pos, header, logheader, trail)
          [] header.object_type = BLF_OBJTYPE_CAN_FD_MESSAGE_64 ->
               blf_read_block_canmessage(
                   blf_read_canfdmessage64(f, b4, buf, start_pos, data_start,
                       header.object_length, flags, object_timestamp),
                   start_pos, header, logheader, trail)
          [] header.object_type = BLF_OBJTYPE_ETHERNET_FRAME ->
               blf_read_block_canmessage(
                   blf_read_ethernetframe(f, b4, buf, start_pos, data_start,
                       header.object_length, flags, object_timestamp),
                   start_pos, header, logheader, trail)
          [] header.object_type = BLF_OBJTYPE_ETHERNET_STATUS ->
               blf_read_block_canmessage(
                   blf_read_ethernet_status(f, b4, buf, start_pos, data_start,
                       header.object_length, flags, object_timestamp),
                   start_pos, header, logheader, trail)
          [] in_apptext ->
               blf_read_block_apptext(
                   f, blf_read_apptextmessage(f, b4, buf, start_pos, data_start,
                          header.object_length, flags, object_timestamp, metadata_cont1),
                   start_pos, header, logheader, next_pos, last_metadata_start1,
                   metadata_cont1, trail)
          [] OTHER ->
               blf_read_block_loop(f, b4, buf, next_pos, last_metadata_start1,
                   metadata_cont1,
                   Append(trail, Located(start_pos, header, logheader, TRUE, "skipped", b4)))

\* the object at start_pos with block header header, after the read of its
\* log object header of size bytes has returned lh; b2 is the session with
\* start_of_last_obj set
blf_read_block_object(f, b2, buf, start_pos, header, size, lh, last_metadata_start0, metadata_cont0, trail) ==
    LET b3  == WithContainers(b2, lh.lc)
        logheader == IF size # 0 /\ lh.ok THEN lh.logheader
                     ELSE logobjectheader(Zeros(16))
        flags == logheader.flags
        object_timestamp == logheader.object_timestamp
        b4  == [b3 EXCEPT !.current_real_seek_pos = start_pos + ObjectAdvance(header)]
        in_apptext == header.object_type = BLF_OBJTYPE_APP_TEXT
        metadata_cont1 == IF metadata_cont0 # 0 /\ ~in_apptext THEN 0 ELSE metadata_cont0
        last_metadata_start1 ==
            IF metadata_cont0 # 0 /\ ~in_apptext THEN 0 ELSE last_metadata_start0
        data_start == start_pos + header.header_length
        next_pos   == start_pos + ObjectAdvance(header)
    IN  IF size = 0
        THEN Handled(trail, start_pos, header, logheader,
                     FALSE, WTAP_ERR_UNSUPPORTED, NoRec, buf, b2, FALSE, "header")
        ELSE IF ~lh.ok
        THEN Handled(trail, start_pos, header, logheader,
                     FALSE, lh.err, NoRec, buf, b3, FALSE, "header")
        ELSE
        CASE header.object_type = BLF_OBJTYPE_LOG_CONTAINER ->
               Handled(trail, start_pos, header, logheader,
                       FALSE, WTAP_ERR_UNSUPPORTED, NoRec, buf, b4, TRUE, "failed")
          [] header.object_type \in {BLF_OBJTYPE_CAN_MESSAGE, BLF_OBJTYPE_CAN_MESSAGE2} ->
               blf_read_block_canmessage(
                   blf_read_canmessage(f, b4, buf, start_pos, data_start,
                       header.object_length, flags, object_timestamp,
                       header.object_type = BLF_OBJTYPE_CAN_MESSAGE2),
                   start_pos, header, logheader, trail)
          [] header.object_type = BLF_OBJTYPE_CAN_FD_MESSAGE ->
               blf_read_block_canmessage(
                   blf_read_canfdmessage(f, b4, buf, start_pos, data_start,
                       header.object_length, flags, object_timestamp),
                   start_pos, header, logheader, trail)
          [] header.object_type = BLF_OBJTYPE_CAN_FD_MESSAGE_64 ->
               blf_read_block_canmessage(
                   blf_read_canfdmessage64(f, b4, buf, start_pos, data_start,
                       header.object_length, flags, object_timestamp),
                   start_pos, header, logheader, trail)
          [] header.object_type = BLF_OBJTYPE_ETHERNET_FRAME ->
               blf_read_block_canmessage(
                   blf_read_ethernetframe(f, b4, buf, start_pos, data_start,
                       header.object_length, flags, object_timestamp),
                   start_pos, header, logheader, trail)
          [] header.object_type = BLF_OBJTYPE_ETHERNET_STATUS ->
               blf_read_block_canmessage(
                   blf_read_ethernet_status(f, b4, buf, start_pos, data_start,
                       header.object_length, flags, object_timestamp),
                   start_pos, header, logheader, trail)
          [] in_apptext ->
               blf_read_block_apptext(
                   f, blf_read_apptextmessage(f, b4, buf, start_pos, data_start,
                          header.object_length, flags, object_timestamp, metadata_cont1),
                   start_pos, header, logheader, next_pos, last_metadata_start1,
                   metadata_cont1, trail)
          [] OTHER ->
               blf_read_block_loop(f, b4, buf, next_pos, last_metadata_start1,
                   metadata_cont1,
                   Append(trail, Located(start_pos, header, logheader, TRUE, "skipped", b4)))

\* one turn of the outer loop after the find-object loop has returned o
blf_read_block_found(f, b0, buf, o, last_metadata_start0, metadata_cont0, trail) ==
    IF ~o.found THEN Block(FALSE, o.err, NoRec, buf, WithContainers(b0, o.lc), trail)
    ELSE blf_read_block_object(
             f, [WithContainers(b0, o.lc) EXCEPT !.start_of_last_obj = o.pos], buf,
             o.pos, o.header, logobjectheader_size(o.header.header_type),
             blf_read_log_object_header(f, o.lc, logobjectheader_size(o.header.header_type),
                 o.pos + SIZEOF_BLOCKHEADER, o.pos + o.header.header_length),
             last_metadata_start0, metadata_cont0, trail)

blf_read_block_loop(f, b0, buf0, start_pos0, last_metadata_start0, metadata_cont0, trail) ==
    blf_read_block_found(f, b0, [buf0 EXCEPT !.first_free = 0],
                         read_find_object(f, b0.log_containers, start_pos0),
                         last_metadata_start0, metadata_cont0, trail)

\* blf_read_block
blf_read_block(f, b, start_pos) == blf_read_block_loop(f, b, EmptyBuffer, start_pos, 0, 0, <<>>)

(***************************************************************************)
(* Session entry points                                                    *)
(***************************************************************************)
\* sizeof(blf_fileheader_t)
SIZEOF_FILEHEADER == 144

\* fix_endianness_blf_fileheader: the fields of the file header read here
fileheader(b) ==
    [ magic |-> SubSeq(b, 1, 4), header_length |-> GUINT32_FROM_LE(b, 4) ]

\* 1000 * 1000 * 1000 * (guint64)mktime(&timestamp) + 1000 * 1000 * ms, where
\* mktime is the host's conversion of the start date to seconds
start_offset(mktime, ms) ==
    Wrap64(AddLimbs(Wrap64(MulLimbs(Wrap64(MulLimbs(mktime, 31250, 0)), 32000, 0)),
                    NatLimbs(1000 * 1000 * ms)))

\* no session: wth->priv before blf_open, and after an open that gave up
NoSession ==
    [log_containers        |-> <<>>,
     current_real_seek_pos |-> 0,
     start_of_last_obj     |-> 0,
     start_offset_ns       |-> Zero64,
     channel_to_iface_ht   |-> <<>>,
     next_interface_id     |-> 0,
     file_encap            |-> WTAP_ENCAP_NONE,
     interface_data        |-> <<>>]

\* blf_open after the scan for log containers has returned scan
blf_open_scanned(f, scan) ==
    [ret   |-> "WTAP_OPEN_MINE",
     b     |-> [log_containers        |-> scan.lc,
                current_real_seek_pos |-> 0,
                start_of_last_obj     |-> 0,
                start_offset_ns       |-> start_offset(f.start_date.mktime, f.start_date.ms),
                channel_to_iface_ht   |-> <<>>,
                next_interface_id     |-> 0,
                file_encap            |-> WTAP_ENCAP_NONE,
                interface_data        |-> <<>>],
     trail |-> scan.trail]

\* blf_open after the read of the file header has returned r
blf_open_header(f, r) ==
    IF ~r.ok
    THEN [ret |-> IF r.err \in {ERR_NONE, WTAP_ERR_SHORT_READ}
                  THEN "WTAP_OPEN_NOT_MINE" ELSE "WTAP_OPEN_ERROR",
          b |-> NoSession, trail |-> <<>>]
    ELSE IF fileheader(r.data).magic # blf_magic
    THEN [ret |-> "WTAP_OPEN_NOT_MINE", b |-> NoSession, trail |-> <<>>]
    ELSE blf_open_scanned(
             f, blf_scan_file_for_logcontainers(f, fileheader(r.data).header_length,
                                                0, <<>>, <<>>))

\* blf_open on file f: the return value, and the session it leaves.
\* start_of_last_obj is left unset by blf_open and is written by
\* blf_read_block before anything reads it.
blf_open(f) == blf_open_header(f, wtap_read_bytes_or_eof(f, 0, SIZEOF_FILEHEADER))

\* what blf_read and blf_seek_read hand back of the block r that
\* blf_read_block returned
block_returned(r, data_offset) ==
    [ok |-> r.ok, err |-> r.err, rec |-> r.rec, payload |-> r.payload, b |-> r.b,
     trail |-> r.trail, data_offset |-> data_offset]

\* *data_offset = blf_data->start_of_last_obj after a block was read
data_offset_of(r) == IF r.ok THEN r.b.start_of_last_obj ELSE -1

\* blf_read after blf_read_block has returned r
blf_read_block_done(r) == block_returned(r, data_offset_of(r))

\* blf_read: the block at the cursor, and its offset for the caller
blf_read(f, b) == blf_read_block_done(blf_read_block(f, b, b.current_real_seek_pos))

\* blf_seek_read: the block at seek_off, read with the session of blf_read
blf_seek_read(f, b, seek_off) == block_returned(blf_read_block(f, b, seek_off), -1)

\* blf_close: the containers and the interface table are freed
blf_close(b) == [b EXCEPT !.log_containers = <<>>, !.channel_to_iface_ht = <<>>]

(***************************************************************************)
(* The files read: byte sequences written the way a BLF writer lays them   *)
(* out, so that every field the reader uses is parsed back from bytes.     *)
(***************************************************************************)
\* the bytes of a virtual stream cut into containers of ChunkLen bytes
ChunkLen == 40

BlockHeaderBytes(header_length, header_type, object_length, object_type) ==
    blf_obj_magic \o LE16(header_length) \o LE16(header_type)
        \o LE32(object_length) \o LE32(object_type)

LogObjectHeaderBytes(flags, object_timestamp) ==
    LE32(flags) \o LE16(0) \o LE16(0) \o U64Bytes(object_timestamp)

\* a CAN_MESSAGE object of 48 bytes with payload bytes 17, 18, ...
CanMessageBytes(flags, object_timestamp, channel, canflags, dlc, id) ==
    BlockHeaderBytes(32, BLF_HEADER_TYPE_DEFAULT, 48, BLF_OBJTYPE_CAN_MESSAGE)
        \o LogObjectHeaderBytes(flags, object_timestamp)
        \o LE16(channel) \o <<canflags, dlc>> \o LE32(id)
        \o <<17, 18, 19, 20, 21, 22, 23, 24>>

\* an APP_TEXT object
AppTextBytes(flags, object_timestamp, source, reservedAppText1, text) ==
    BlockHeaderBytes(32, BLF_HEADER_TYPE_DEFAULT, 48 + Len(text), BLF_OBJTYPE_APP_TEXT)
        \o LogObjectHeaderBytes(flags, object_timestamp)
        \o LE32(source) \o LE32(reservedAppText1) \o LE32(Len(text)) \o LE32(0)
        \o text

\* an object of a type no decoder handles, of header length 32 and with the
\* object length its writer declared
UnknownBytes(object_length, body) ==
    BlockHeaderBytes(32, BLF_HEADER_TYPE_DEFAULT, object_length, 999)
        \o LogObjectHeaderBytes(BLF_TIMESTAMP_RESOLUTION_1NS, NatLimbs(3)) \o body

CanA == CanMessageBytes(BLF_TIMESTAMP_RESOLUTION_10US, NatLimbs(5), 1, 0, 2, 291)

CanB == CanMessageBytes(BLF_TIMESTAMP_RESOLUTION_1NS, NatLimbs(7), 2, BLF_CANMESSAGE_FLAG_TX, 8, 80)

\* a CAN message whose flags name no timestamp resolution
CanNoResolution == CanMessageBytes(0, NatLimbs(9), 1, 0, 1, 7)

\* CAN messages whose raw timestamps are 2^63 and 2^64 - 1
CanHuge10us == CanMessageBytes(BLF_TIMESTAMP_RESOLUTION_10US, <<0, 0, 0, 32768>>, 1, 0, 1, 7)

CanHuge1ns ==
    CanMessageBytes(BLF_TIMESTAMP_RESOLUTION_1NS, <<65535, 65535, 65535, 65535>>, 1, 0, 1, 7)

\* a CAN message object too short for its CAN header
CanTruncated ==
    BlockHeaderBytes(32, BLF_HEADER_TYPE_DEFAULT, 36, BLF_OBJTYPE_CAN_MESSAGE)
        \o LogObjectHeaderBytes(BLF_TIMESTAMP_RESOLUTION_1NS, NatLimbs(8)) \o <<1, 0, 0, 2>>

\* an object whose header length leaves no room for the log object header
ShortHeader == BlockHeaderBytes(16, BLF_HEADER_TYPE_DEFAULT, 0, BLF_OBJTYPE_CAN_MESSAGE)

\* an object of a header type the reader does not know
HeaderType9 == BlockHeaderBytes(32, 9, 32, BLF_OBJTYPE_CAN_MESSAGE) \o Zeros(16)

\* a log container inside a log container
NestedContainer ==
    BlockHeaderBytes(32, BLF_HEADER_TYPE_DEFAULT, 32, BLF_OBJTYPE_LOG_CONTAINER)
        \o LogObjectHeaderBytes(BLF_TIMESTAMP_RESOLUTION_1NS, NatLimbs(4))

\* metadata "ab" continued by "cd", a comment "hi" and a channel "x;can7"
MetaFirst ==
    AppTextBytes(BLF_TIMESTAMP_RESOLUTION_1NS, NatLimbs(10), BLF_APPTEXT_METADATA, 4, <<97, 98>>)

MetaLast ==
    AppTextBytes(BLF_TIMESTAMP_RESOLUTION_1NS, NatLimbs(11), BLF_APPTEXT_METADATA, 2, <<99, 100>>)

CommentHi ==
    AppTextBytes(BLF_TIMESTAMP_RESOLUTION_10US, NatLimbs(12), BLF_APPTEXT_COMMENT, 0,
                 <<104, 105, 0, 120>>)

ChannelCan7 ==
    AppTextBytes(BLF_TIMESTAMP_RESOLUTION_1NS, NatLimbs(13), BLF_APPTEXT_CHANNEL,
                 65536 * BLF_BUSTYPE_CAN + 256 * 1, <<120, 59, 99, 97, 110, 55>>)

\* the virtual streams
Streams ==
    << CanA \o UnknownBytes(0, <<>>) \o <<0, 0>> \o CanB \o CanA,
       MetaFirst \o MetaLast \o CanA \o CommentHi,
       CanA \o CanTruncated \o CanB \o ShortHeader \o CanA,
       CanNoResolution \o CanHuge10us \o CanHuge1ns \o HeaderType9,
       ChannelCan7 \o CanA \o UnknownBytes(40, Zeros(8)) \o NestedContainer \o CanB >>

\* the toy deflate that inflate undoes
Deflate(data) == <<ZHeaderByte>> \o LE16(Len(data)) \o [i \in 1..Len(data) |-> 255 - data[i]]

\* a log container object holding data, padded to a multiple of four bytes
ContainerBytes(compression_method, data) ==
    LET stored == IF compression_method = BLF_COMPRESSION_ZLIB THEN Deflate(data) ELSE data
        obj == BlockHeaderBytes(16, BLF_HEADER_TYPE_DEFAULT, 32 + Len(stored),
                                BLF_OBJTYPE_LOG_CONTAINER)
                 \o LE16(compression_method) \o Zeros(6) \o LE32(Len(data)) \o Zeros(4)
                 \o stored
    IN  obj \o Zeros((4 - (Len(obj) % 4)) % 4)

\* stream cut into pieces of n bytes
RECURSIVE Chunks(_, _)
Chunks(stream, n) ==
    IF Len(stream) <= n THEN <<stream>>
    ELSE <<SubSeq(stream, 1, n)>> \o Chunks(SubSeq(stream, n + 1, Len(stream)), n)

\* top-level objects that are no containers, with object_length 0
Stray16 == BlockHeaderBytes(16, BLF_HEADER_TYPE_DEFAULT, 0, 999)

Stray32 == BlockHeaderBytes(32, BLF_HEADER_TYPE_DEFAULT, 0, 999) \o Zeros(16)

\* the layouts: one container; containers of ChunkLen bytes; the same with an
\* empty container after the second; the same with stray top-level objects
Layouts == <<"whole", "chunked", "gap", "stray">>

Pieces(stream, layout) ==
    LET c == Chunks(stream, ChunkLen)
    IN  CASE layout = "whole" -> <<stream>>
          [] layout = "gap"   -> SubSeq(c, 1, 2) \o << <<>> >> \o SubSeq(c, 3, Len(c))
          [] OTHER            -> c

RECURSIVE Containers(_, _, _, _)
Containers(pieces, compression_method, layout, i) ==
    IF i > Len(pieces) THEN <<>>
    ELSE ContainerBytes(compression_method, pieces[i])
           \o (IF layout = "stray" /\ i = 1 THEN Stray16
               ELSE IF layout = "stray" /\ i = 2 THEN Stray32 ELSE <<>>)
           \o Containers(pieces, compression_method, layout, i + 1)

FileHeaderBytes == blf_magic \o LE32(SIZEOF_FILEHEADER) \o Zeros(SIZEOF_FILEHEADER - 8)

\* a capture started 1000 s and 5 ms after the epoch
BlfFile(stream, layout, compression_method) ==
    [ bytes |-> FileHeaderBytes
                  \o Containers(Pieces(stream, layout), compression_method, layout, 1),
      start_date |-> [mktime |-> NatLimbs(1000), ms |-> 5],
      virt  |-> stream,
      compression_method |-> compression_method,
      layout |-> layout ]

\* streams that end in zero bytes: fewer than a block header, and more
PaddedStreams == << CanA \o Zeros(7), CanB \o CanA \o Zeros(20) >>

\* a file of a padded stream, with tail more zero bytes after its last container
PaddedFile(stream, layout, compression_method, tail) ==
    [BlfFile(stream, layout, compression_method) EXCEPT !.bytes = @ \o Zeros(tail),
                                                        !.layout = "padded"]

\* the padded streams in one container and in chunks, stored and deflated
PaddedFiles ==
    << PaddedFile(PaddedStreams[1], "whole", BLF_COMPRESSION_NONE, 7),
       PaddedFile(PaddedStreams[2], "whole", BLF_COMPRESSION_NONE, 0),
       PaddedFile(PaddedStreams[1], "chunked", BLF_COMPRESSION_NONE, 0),
       PaddedFile(PaddedStreams[2], "chunked", BLF_COMPRESSION_NONE, 20),
       PaddedFile(PaddedStreams[1], "whole", BLF_COMPRESSION_ZLIB, 0),
       PaddedFile(PaddedStreams[2], "whole", BLF_COMPRESSION_ZLIB, 20),
       PaddedFile(PaddedStreams[1], "chunked", BLF_COMPRESSION_ZLIB, 7),
       PaddedFile(PaddedStreams[2], "chunked", BLF_COMPRESSION_ZLIB, 0) >>

\* a stream whose third object header lies across two containers
StraddlingStream == CanA \o Zeros(24) \o CanB

\* a stored file of stream that ends after the first present bytes of the
\* stream, inside the data of its last container
TruncatedFile(stream, layout, present) ==
    LET g      == BlfFile(stream, layout, BLF_COMPRESSION_NONE)
        pieces == Pieces(stream, layout)
        pad    == (4 - ((32 + Len(pieces[Len(pieces)])) % 4)) % 4
    IN  [g EXCEPT !.bytes = SubSeq(g.bytes, 1, Len(g.bytes) - pad - (Len(stream) - present)),
                  !.virt = SubSeq(stream, 1, present),
                  !.layout = "truncated"]

\* files that end inside the second block header, at its start, inside a
\* block header that lies across two containers, and inside an object's body
TruncatedFiles ==
    << TruncatedFile(CanA \o CanB, "whole", 55),
       TruncatedFile(CanA \o CanB, "whole", 48),
       TruncatedFile(StraddlingStream, "chunked", 83),
       TruncatedFile(CanA \o CanB, "whole", 70) >>

\* METADATA objects with the texts "HELLO-----" and "WORLD!", each with 16 in
\* the low 24 bits of reservedAppText1
MetaHello ==
    AppTextBytes(BLF_TIMESTAMP_RESOLUTION_1NS, NatLimbs(20), BLF_APPTEXT_METADATA, 16,
                 <<72, 69, 76, 76, 79, 45, 45, 45, 45, 45>>)

MetaWorld ==
    AppTextBytes(BLF_TIMESTAMP_RESOLUTION_1NS, NatLimbs(21), BLF_APPTEXT_METADATA, 16,
                 <<87, 79, 82, 76, 68, 33>>)

\* the two objects as the whole stream, and with a CAN message after them
TotalLengthFiles ==
    << [BlfFile(MetaHello \o MetaWorld, "whole", BLF_COMPRESSION_NONE)
           EXCEPT !.layout = "total_length"],
       [BlfFile(MetaHello \o MetaWorld, "whole", BLF_COMPRESSION_ZLIB)
           EXCEPT !.layout = "total_length"],
       [BlfFile(MetaHello \o MetaWorld \o CanA, "whole", BLF_COMPRESSION_NONE)
           EXCEPT !.layout = "total_length"] >>

\* a top-level object, and a log container, of header type 2
Foreign16 == BlockHeaderBytes(16, BLF_HEADER_TYPE_2, 16, 999)

ForeignContainer ==
    BlockHeaderBytes(16, BLF_HEADER_TYPE_2, 32 + Len(CanB), BLF_OBJTYPE_LOG_CONTAINER)
        \o LE16(BLF_COMPRESSION_NONE) \o Zeros(6) \o LE32(Len(CanB)) \o Zeros(4) \o CanB

\* files with such an object between two containers, and as the first and
\* as the second top-level object; virt is the part of the stream that
\* lies before it
ForeignHeaderFiles ==
    << [ bytes |-> FileHeaderBytes \o ContainerBytes(BLF_COMPRESSION_NONE, CanA)
                     \o Foreign16 \o ContainerBytes(BLF_COMPRESSION_NONE, CanB),
         start_date |-> [mktime |-> NatLimbs(1000), ms |-> 5],
         virt |-> CanA, compression_method |-> BLF_COMPRESSION_NONE,
         layout |-> "foreign" ],
       [ bytes |-> FileHeaderBytes \o ForeignContainer
                     \o ContainerBytes(BLF_COMPRESSION_NONE, CanA),
         start_date |-> [mktime |-> NatLimbs(1000), ms |-> 5],
         virt |-> <<>>, compression_method |-> BLF_COMPRESSION_NONE,
         layout |-> "foreign" ],
       [ bytes |-> FileHeaderBytes \o ContainerBytes(BLF_COMPRESSION_ZLIB, CanA)
                     \o ForeignContainer,
         start_date |-> [mktime |-> NatLimbs(1000), ms |-> 5],
         virt |-> CanA, compression_method |-> BLF_COMPRESSION_ZLIB,
         layout |-> "foreign" ] >>

\* a METADATA object that continues, with the text "xyz"
MetaMid ==
    AppTextBytes(BLF_TIMESTAMP_RESOLUTION_1NS, NatLimbs(14), BLF_APPTEXT_METADATA,
                 9 + 16777216 * 3, <<120, 121, 122>>)

\* runs of one, three and two METADATA objects, each run ended by an object
\* whose reservedAppText1 is not above its textLength
MetaRuns == << <<MetaLast>>, <<MetaFirst, MetaMid, MetaLast>>, <<MetaFirst, MetaLast>> >>

\* the bytes of a sequence of objects
RECURSIVE Concat(_)
Concat(objects) ==
    IF objects = <<>> THEN <<>> ELSE Head(objects) \o Concat(Tail(objects))

\* the three runs one after the other
MetaRunStream == Concat(MetaRuns[1]) \o Concat(MetaRuns[2]) \o Concat(MetaRuns[3])

MetaRunFiles ==
    << [BlfFile(MetaRunStream, "whole", BLF_COMPRESSION_NONE) EXCEPT !.layout = "runs"],
       [BlfFile(MetaRunStream, "chunked", BLF_COMPRESSION_ZLIB) EXCEPT !.layout = "runs"] >>

\* METADATA objects that continue (cont), the object that follows them (by)
\* and whether a record is returned for that object; a METADATA object that
\* ends a sequence follows each
Interruptions ==
    << [cont |-> <<MetaFirst>>, by |-> CanA, emits |-> TRUE],
       [cont |-> <<MetaFirst>>, by |-> CommentHi, emits |-> TRUE],
       [cont |-> <<MetaFirst>>, by |-> ChannelCan7, emits |-> FALSE],
       [cont |-> <<MetaFirst, MetaMid>>, by |-> UnknownBytes(32, <<>>), emits |-> FALSE] >>

InterruptionBytes(j) == Concat(Interruptions[j].cont) \o Interruptions[j].by \o MetaLast

\* one file for each case, stored in one container or deflated in chunks
InterruptedFiles ==
    [ j \in DOMAIN Interruptions |->
        [BlfFile(InterruptionBytes(j),
                 IF j % 2 = 1 THEN "whole" ELSE "chunked",
                 IF j % 2 = 1 THEN BLF_COMPRESSION_NONE ELSE BLF_COMPRESSION_ZLIB)
           EXCEPT !.layout = "interrupted"] ]

\* the containers of pieces, stored and deflated in turn, the first with
\* compression_method
RECURSIVE MixedContainers(_, _, _)
MixedContainers(pieces, compression_method, i) ==
    IF i > Len(pieces) THEN <<>>
    ELSE ContainerBytes(compression_method, pieces[i])
           \o MixedContainers(pieces,
                   IF compression_method = BLF_COMPRESSION_NONE
                   THEN BLF_COMPRESSION_ZLIB ELSE BLF_COMPRESSION_NONE, i + 1)

\* two CAN messages in chunks that are stored and deflated in turn
MixedFile(compression_method) ==
    [ bytes |-> FileHeaderBytes
                  \o MixedContainers(Chunks(CanA \o CanB, ChunkLen), compression_method, 1),
      start_date |-> [mktime |-> NatLimbs(1000), ms |-> 5],
      virt  |-> CanA \o CanB,
      compression_method |-> compression_method,
      layout |-> "mixed" ]

MixedFiles == << MixedFile(BLF_COMPRESSION_NONE), MixedFile(BLF_COMPRESSION_ZLIB) >>

\* a file of one ZLIB log container that declares uncompressed_size bytes
\* and holds the bytes stored as its deflate stream
InflateFile(uncompressed_size, stored) ==
    [ bytes |-> FileHeaderBytes
                  \o BlockHeaderBytes(16, BLF_HEADER_TYPE_DEFAULT, 32 + Len(stored),
                                      BLF_OBJTYPE_LOG_CONTAINER)
                  \o LE16(BLF_COMPRESSION_ZLIB) \o Zeros(6) \o LE32(uncompressed_size)
                  \o Zeros(4) \o stored \o Zeros((4 - (Len(stored) % 4)) % 4),
      start_date |-> [mktime |-> NatLimbs(1000), ms |-> 5],
      virt  |-> CanA,
      compression_method |-> BLF_COMPRESSION_ZLIB,
      layout |-> "inflate" ]

\* a stream that inflates to 8 bytes more than the container declares, a
\* stream of two bytes, and a stream that ends before its last byte
InflateFiles ==
    << InflateFile(Len(CanA), Deflate(CanA \o Zeros(8))),
       InflateFile(Len(CanA), <<ZHeaderByte, Len(CanA)>>),
       InflateFile(Len(CanA), SubSeq(Deflate(CanA), 1, Len(CanA) + 2)) >>

\* a CAN message of channel 1, then the channel description that names
\* CAN channel 1 "can7", then another CAN message
NamedLateFiles ==
    << [BlfFile(CanA \o ChannelCan7 \o CanB, "whole", BLF_COMPRESSION_NONE)
           EXCEPT !.layout = "named_late"] >>

\* an object of unknown type and of a header type the reader does not know
UnknownHeaderType9 == BlockHeaderBytes(32, 9, 32, 999) \o Zeros(16)

\* objects of unknown type before and after a CAN message, and one of an
\* unknown header type between two CAN messages
UnknownTypeFiles ==
    << [BlfFile(UnknownBytes(32, <<>>) \o UnknownBytes(0, <<>>) \o CanA
                  \o UnknownBytes(40, Zeros(8)),
                "chunked", BLF_COMPRESSION_ZLIB) EXCEPT !.layout = "unknown"],
       [BlfFile(CanA \o UnknownHeaderType9 \o CanB, "whole", BLF_COMPRESSION_NONE)
           EXCEPT !.layout = "unknown"] >>

\* a CAN_FD_MESSAGE object of the object length its writer declared
CanFdMessageBytes(object_length, channel, canflags, dlc, id, canfdflags, validDataBytes, data) ==
    BlockHeaderBytes(32, BLF_HEADER_TYPE_DEFAULT, object_length, BLF_OBJTYPE_CAN_FD_MESSAGE)
        \o LogObjectHeaderBytes(BLF_TIMESTAMP_RESOLUTION_1NS, NatLimbs(3))
        \o LE16(channel) \o <<canflags, dlc>> \o LE32(id) \o LE32(0)
        \o <<0, canfdflags, validDataBytes, 0>> \o LE32(0) \o data

\* a CAN_FD_MESSAGE_64 object of the object length its writer declared
CanFdMessage64Bytes(object_length, channel, dlc, validDataBytes, id, hflags, dir, data) ==
    BlockHeaderBytes(32, BLF_HEADER_TYPE_DEFAULT, object_length, BLF_OBJTYPE_CAN_FD_MESSAGE_64)
        \o LogObjectHeaderBytes(BLF_TIMESTAMP_RESOLUTION_1NS, NatLimbs(4))
        \o <<channel, dlc, validDataBytes, 0>> \o LE32(id) \o LE32(0) \o LE32(hflags)
        \o Zeros(16) \o LE16(0) \o <<dir, 0>> \o LE32(0) \o data

\* the bytes 33, 34, ... of a CAN FD payload
FdData(n) == [i \in 1..n |-> 32 + i]

\* an FD frame of dlc 11 with its 20 payload bytes, one with 10 of them, and
\* a classic remote frame; then the same for CAN_FD_MESSAGE_64 with dlc 9
CanFdFiles ==
    << [BlfFile(CanFdMessageBytes(72, 1, 0, 11, 291, BLF_CANFDMESSAGE_CANFDFLAG_EDL, 20,
                                  FdData(20))
                  \o CanFdMessageBytes(62, 1, 0, 11, 292, BLF_CANFDMESSAGE_CANFDFLAG_EDL, 20,
                                        FdData(10))
                  \o CanFdMessageBytes(52, 1, BLF_CANMESSAGE_FLAG_RTR, 3, 293, 0, 0, <<>>),
                "whole", BLF_COMPRESSION_NONE) EXCEPT !.layout = "canfd"],
       [BlfFile(CanFdMessage64Bytes(84, 1, 9, 12, 291, BLF_CANFDMESSAGE64_FLAG_EDL,
                                    BLF_DIR_TX, FdData(12))
                  \o CanFdMessage64Bytes(76, 1, 9, 12, 292, BLF_CANFDMESSAGE64_FLAG_EDL,
                                          BLF_DIR_RX, FdData(4))
                  \o CanFdMessage64Bytes(72, 1, 3, 0, 293,
                                          BLF_CANFDMESSAGE64_FLAG_REMOTE_FRAME, BLF_DIR_RX, <<>>),
                "whole", BLF_COMPRESSION_ZLIB) EXCEPT !.layout = "canfd"] >>

\* an ETHERNET_FRAME object of the object length and payloadlength its
\* writer declared
EthernetFrameBytes(object_length, channel, direction, tpid, tci, payloadlength, data) ==
    BlockHeaderBytes(32, BLF_HEADER_TYPE_DEFAULT, object_length, BLF_OBJTYPE_ETHERNET_FRAME)
        \o LogObjectHeaderBytes(BLF_TIMESTAMP_RESOLUTION_1NS, NatLimbs(6))
        \o <<2, 0, 0, 0, 0, 1>> \o LE16(channel) \o <<2, 0, 0, 0, 0, 2>> \o LE16(direction)
        \o LE16(2048) \o LE16(tpid) \o LE16(tci) \o LE16(payloadlength) \o Zeros(8) \o data

\* an ETHERNET_STATUS object
EthernetStatusBytes(channel, sflags, hardwareChannel) ==
    BlockHeaderBytes(32, BLF_HEADER_TYPE_DEFAULT, 64, BLF_OBJTYPE_ETHERNET_STATUS)
        \o LogObjectHeaderBytes(BLF_TIMESTAMP_RESOLUTION_1NS, NatLimbs(8))
        \o LE16(channel) \o LE16(sflags) \o <<1, 2, 3, 4, 5, 6, 7, hardwareChannel>>
        \o LE32(1000)

\* an Ethernet frame of channel 1, the status of channel 1 on hardware channel
\* 3, and a tagged frame of channel 1; then a status without hardware
\* channel before a CAN message of the same channel and a comment
EthernetFiles ==
    << [BlfFile(EthernetFrameBytes(68, 1, BLF_DIR_RX, 0, 0, 4, <<51, 52, 53, 54>>)
                  \o EthernetStatusBytes(1, BLF_ETH_STATUS_HARDWARECHANNEL, 3)
                  \o EthernetFrameBytes(66, 1, BLF_DIR_TX, 33024, 5, 2, <<61, 62>>),
                "whole", BLF_COMPRESSION_NONE) EXCEPT !.layout = "ethernet"],
       [BlfFile(EthernetStatusBytes(1, 0, 0) \o CanA \o CommentHi,
                "chunked", BLF_COMPRESSION_ZLIB) EXCEPT !.layout = "ethernet"] >>

\* a top-level object that is no container and declares neither a header
\* length nor an object length, between two containers, and zero bytes
\* between the objects of the second
TinyStrayFiles ==
    << [ bytes |-> FileHeaderBytes
                     \o ContainerBytes(BLF_COMPRESSION_NONE, CanA)
                     \o BlockHeaderBytes(0, BLF_HEADER_TYPE_DEFAULT, 0, 999)
                     \o ContainerBytes(BLF_COMPRESSION_ZLIB,
                                       UnknownBytes(32, <<>>) \o Zeros(5) \o CanB),
         start_date |-> [mktime |-> NatLimbs(1000), ms |-> 5],
         virt  |-> CanA \o UnknownBytes(32, <<>>) \o Zeros(5) \o CanB,
         compression_method |-> BLF_COMPRESSION_ZLIB,
         layout |-> "tiny" ] >>

\* an ETHERNET_FRAME object that ends with its type header and declares four
\* payload bytes, before a CAN message; and an APP_TEXT comment that ends
\* with its type header and declares four bytes of text, before a CAN message
OverrunFiles ==
    << [BlfFile(EthernetFrameBytes(64, 1, BLF_DIR_RX, 0, 0, 4, <<>>) \o CanA,
                "whole", BLF_COMPRESSION_NONE) EXCEPT !.layout = "overrun"],
       [BlfFile(BlockHeaderBytes(32, BLF_HEADER_TYPE_DEFAULT, 48, BLF_OBJTYPE_APP_TEXT)
                  \o LogObjectHeaderBytes(BLF_TIMESTAMP_RESOLUTION_1NS, NatLimbs(2))
                  \o LE32(BLF_APPTEXT_COMMENT) \o LE32(0) \o LE32(4) \o LE32(0)
                  \o CanB,
                "whole", BLF_COMPRESSION_ZLIB) EXCEPT !.layout = "overrun"] >>

\* a comment without text
EmptyComment ==
    AppTextBytes(BLF_TIMESTAMP_RESOLUTION_1NS, NatLimbs(2), BLF_APPTEXT_COMMENT, 0, <<>>)

\* objects of empty payload: an Ethernet frame before a CAN message in one
\* container; an Ethernet frame at the end of the only container; a comment
\* that fills the first of two containers
EmptyPayloadFiles ==
    << [BlfFile(EthernetFrameBytes(64, 1, BLF_DIR_RX, 0, 0, 0, <<>>) \o CanA,
                "whole", BLF_COMPRESSION_NONE) EXCEPT !.layout = "empty"],
       [BlfFile(CanA \o EthernetFrameBytes(64, 1, BLF_DIR_RX, 0, 0, 0, <<>>),
                "whole", BLF_COMPRESSION_NONE) EXCEPT !.layout = "empty"],
       [ bytes |-> FileHeaderBytes \o ContainerBytes(BLF_COMPRESSION_ZLIB, EmptyComment)
                     \o ContainerBytes(BLF_COMPRESSION_ZLIB, CanA),
         start_date |-> [mktime |-> NatLimbs(1000), ms |-> 5],
         virt  |-> EmptyComment \o CanA,
         compression_method |-> BLF_COMPRESSION_ZLIB,
         layout |-> "empty" ] >>

\* a ZLIB container that declares the size of CanB and holds the stored bytes
ZlibContainerOf(stored) ==
    BlockHeaderBytes(16, BLF_HEADER_TYPE_DEFAULT, 32 + Len(stored), BLF_OBJTYPE_LOG_CONTAINER)
        \o LE16(BLF_COMPRESSION_ZLIB) \o Zeros(6) \o LE32(Len(CanB)) \o Zeros(4) \o stored

\* a container that inflates, then one whose stream starts with a byte that
\* is no zlib header; and the same with a second container whose last ten
\* bytes the file does not hold
FailedPullFiles ==
    << [ bytes |-> FileHeaderBytes \o ContainerBytes(BLF_COMPRESSION_ZLIB, CanA)
                     \o ZlibContainerOf(<<0>> \o Tail(Deflate(CanB))),
         start_date |-> [mktime |-> NatLimbs(1000), ms |-> 5],
         virt  |-> CanA \o CanB,
         compression_method |-> BLF_COMPRESSION_ZLIB,
         layout |-> "failed_pull" ],
       [ bytes |-> FileHeaderBytes \o ContainerBytes(BLF_COMPRESSION_ZLIB, CanA)
                     \o SubSeq(ZlibContainerOf(Deflate(CanB)), 1, 32 + Len(CanB) - 7),
         start_date |-> [mktime |-> NatLimbs(1000), ms |-> 5],
         virt  |-> CanA \o CanB,
         compression_method |-> BLF_COMPRESSION_ZLIB,
         layout |-> "failed_pull" ] >>

\* the files after the first forty-two
ExtraFiles ==
    PaddedFiles \o TruncatedFiles \o TotalLengthFiles \o ForeignHeaderFiles \o MetaRunFiles
        \o InterruptedFiles \o MixedFiles \o InflateFiles \o NamedLateFiles
        \o UnknownTypeFiles \o CanFdFiles \o EthernetFiles \o TinyStrayFiles
        \o OverrunFiles \o EmptyPayloadFiles \o FailedPullFiles

\* every stream in every layout, stored and deflated; then a file
\* that is no BLF file and a file whose second container does not inflate;
\* then the files of the further cases
Files ==
    [ i \in 1..(Len(Streams) * Len(Layouts) * 2) |->
        BlfFile(Streams[((i - 1) % Len(Streams)) + 1],
                Layouts[(((i - 1) \div Len(Streams)) % Len(Layouts)) + 1],
                IF (i - 1) \div (Len(Streams) * Len(Layouts)) = 0
                THEN BLF_COMPRESSION_NONE ELSE BLF_COMPRESSION_ZLIB) ]
    \o << [ bytes |-> <<80, 75, 3, 4>> \o Zeros(SIZEOF_FILEHEADER),
            start_date |-> [mktime |-> NatLimbs(1000), ms |-> 5],
            virt |-> <<>>, compression_method |-> BLF_COMPRESSION_NONE, layout |-> "none" ],
          LET g == BlfFile(Streams[1], "chunked", BLF_COMPRESSION_ZLIB)
              at == SIZEOF_FILEHEADER
                      + Len(ContainerBytes(BLF_COMPRESSION_ZLIB, SubSeq(Streams[1], 1, ChunkLen)))
                      + 32 + 1
          IN  [g EXCEPT !.bytes[at] = 0, !.layout = "corrupt"] >>
    \o ExtraFiles

(***************************************************************************)
(* The session as a state machine                                          *)
(***************************************************************************)
VARIABLES
    fid,       \* the file of this session, an index into Files
    phase,     \* "unopened", "open", "not_mine" or "closed"
    blf,       \* the blf_t of the session, with the wtap fields blf.c writes
    last,      \* the last call: its arguments, what it handed back, and the
               \* cursor (before) and latest reported offset (prev) it started from
    seq_hist,  \* what the successful blf_read calls reported
    seq_prev   \* the offset the latest successful blf_read reported, or -1

vars == <<fid, phase, blf, last, seq_hist, seq_prev>>

NoCall ==
    [op |-> "none", seek_off |-> -1, ok |-> FALSE, err |-> ERR_NONE, rec |-> NoRec,
     payload |-> <<>>, data_offset |-> -1, trail |-> <<>>, before |-> -1, prev |-> -1]

Init ==
    /\ fid \in DOMAIN Files
    /\ phase = "unopened"
    /\ blf = NoSession
    /\ last = NoCall
    /\ seq_hist = {}
    /\ seq_prev = -1

\* the caller of blf_open with what it returned
Opened(r) ==
    /\ phase' = IF r.ret = "WTAP_OPEN_MINE" THEN "open" ELSE "not_mine"
    /\ blf' = r.b
    /\ last' = [NoCall EXCEPT !.op = "open", !.ok = (r.ret = "WTAP_OPEN_MINE"),
                              !.trail = r.trail]

\* wtap_open_offline reaching blf_open
Open ==
    /\ phase = "unopened"
    /\ Opened(blf_open(Files[fid]))
    /\ UNCHANGED <<fid, seq_hist, seq_prev>>

\* the caller of blf_read or blf_seek_read with what it returned
Returned(op, seek_off, r) ==
    /\ blf' = r.b
    /\ last' = [op |-> op, seek_off |-> seek_off, ok |-> r.ok, err |-> r.err,
                rec |-> r.rec, payload |-> r.payload, data_offset |-> r.data_offset,
                trail |-> r.trail, before |-> blf.current_real_seek_pos,
                prev |-> seq_prev]

\* the offsets blf_read has reported, with the records at them
Reported(r) ==
    /\ seq_hist' = IF r.ok
                   THEN seq_hist \cup {[off |-> r.data_offset, rec |-> r.rec,
                                        payload |-> r.payload]}
                   ELSE seq_hist
    /\ seq_prev' = IF r.ok THEN r.data_offset ELSE seq_prev

\* the caller of blf_read with what it returned
ReadReturned(r) == Returned("read", -1, r) /\ Reported(r)

\* wtap_read reaching blf_read
Read ==
    /\ phase = "open"
    /\ ReadReturned(blf_read(Files[fid], blf))
    /\ UNCHANGED <<fid, phase>>

\* the offsets random reads are made at: those the sequential reads reported,
\* the two cursors, and an offset inside the first object
SeekOffsets == {h.off : h \in seq_hist} \cup {blf.start_of_last_obj, blf.current_real_seek_pos, 20}

\* wtap_seek_read reaching blf_seek_read
SeekRead(seek_off) ==
    /\ phase = "open"
    /\ Returned("seek_read", seek_off, blf_seek_read(Files[fid], blf, seek_off))
    /\ UNCHANGED <<fid, phase, seq_hist, seq_prev>>

\* wtap_close reaching blf_close
Close ==
    /\ phase = "open"
    /\ phase' = "closed"
    /\ blf' = blf_close(blf)
    /\ last' = [NoCall EXCEPT !.op = "close"]
    /\ UNCHANGED <<fid, seq_hist, seq_prev>>

Next ==
    \/ Open
    \/ Read
    \/ \E seek_off \in SeekOffsets : SeekRead(seek_off)
    \/ Close

Spec == Init /\ [][Next]_vars

(***************************************************************************)
(* Properties                                                              *)
(***************************************************************************)
\* the last call was a blf_read or a blf_seek_read
BlockRead == last.op \in {"read", "seek_read"}

\* C1: a random read, whether it succeeds or fails, leaves the sequential
\* cursor current_real_seek_pos as it found it
C1_SeekReadKeepsCursor ==
    last.op = "seek_read" => blf.current_real_seek_pos = last.before

\* C2: in every state of an open session, a random read at an offset that a
\* successful sequential read reported hands back the record and payload
\* that read handed back; so does the same random read made again, and so
\* does it after a random read at any other reported offset
C2_RandomReadRepeats ==
    phase = "open" =>
        \A h \in seq_hist :
            LET f  == Files[fid]
                r1 == blf_seek_read(f, blf, h.off)
                r2 == blf_seek_read(f, r1.b, h.off)
            IN  /\ r1.ok /\ r1.rec = h.rec /\ r1.payload = h.payload
                /\ r2.ok /\ r2.rec = h.rec /\ r2.payload = h.payload
                /\ \A g \in seq_hist :
                       LET r3 == blf_seek_read(f, blf_seek_read(f, blf, g.off).b, h.off)
                       IN  r3.ok /\ r3.rec = h.rec /\ r3.payload = h.payload
                /\ (last.op = "seek_read" /\ last.seek_off = h.off) =>
                       (last.ok /\ last.rec = h.rec /\ last.payload = h.payload)

\* C2 witness: a random read has handed back again the record that a
\* sequential read assembled from a sequence of two METADATA objects
C2_Witness ==
    /\ last.op = "seek_read" /\ last.ok
    /\ Len(last.trail) = 2
    /\ last.trail[1].header.object_type = BLF_OBJTYPE_APP_TEXT
    /\ last.trail[1].outcome = "skipped"
    /\ \E h \in seq_hist :
           h.off = last.seek_off /\ h.rec = last.rec /\ h.payload = last.payload

\* C3: a successful sequential read reports an offset greater than the one
\* the successful sequential read before it reported, and smaller than the
\* cursor it leaves
C3_SequentialOffsetsIncrease ==
    (last.op = "read" /\ last.ok) =>
        /\ last.prev < last.data_offset
        /\ last.data_offset < blf.current_real_seek_pos

\* C4, as claimed: after a read call, for every object it located, the
\* cursor stood at start + max(16, object_length, header_length) once the
\* object had been handled, whatever became of the object
C4_CursorPastEveryObject ==
    BlockRead =>
        \A i \in DOMAIN last.trail :
            LET e == last.trail[i]
            IN  e.seek_pos = e.start + MAX(MAX(16, e.header.object_length),
                                           e.header.header_length)

\* C4, amended: for every located object whose log object header was read,
\* the cursor stood at start + max(16, object_length, header_length) once
\* the object had been handled, whether it was decoded, failed in its
\* decoder or was skipped; an object whose log object header could not be
\* read left the cursor where it was
C4_CursorPastEveryReadObject ==
    BlockRead =>
        \A i \in DOMAIN last.trail :
            LET e == last.trail[i]
                cursor_before == IF i = 1 THEN last.before ELSE last.trail[i - 1].seek_pos
            IN  IF e.header_read
                THEN e.seek_pos = e.start + MAX(MAX(16, e.header.object_length),
                                                e.header.header_length)
                ELSE e.seek_pos = cursor_before

\* C4 witness: one read call skipped an object and then failed in the
\* decoder of the next, and the cursor stands past the failed object
C4_Witness ==
    /\ last.op = "read" /\ ~last.ok /\ Len(last.trail) >= 2
    /\ last.trail[Len(last.trail) - 1].outcome = "skipped"
    /\ last.trail[Len(last.trail)].outcome = "failed"
    /\ last.trail[Len(last.trail)].header_read
    /\ blf.current_real_seek_pos =
           last.trail[Len(last.trail)].start
               + last.trail[Len(last.trail)].header.object_length

\* C5, as claimed: in the scan and in the demultiplexer, the position after
\* a located object that declares object_length = 0 is its start plus 16
C5_ZeroLengthAdvances16 ==
    (BlockRead \/ last.op = "open") =>
        \A i \in DOMAIN last.trail :
            LET e == last.trail[i]
            IN  e.header.object_length = 0 => e.seek_pos = e.start + 16

\* C5, amended: the position after a located object that declares
\* object_length = 0 is its start plus max(16, header_length), which is at
\* least its start plus 16: this holds for every such object the scan moves
\* past, and for every such object of the demultiplexer whose log object
\* header was read (its header_length is then 32 or more)
C5_ZeroLengthAdvancesPastHeader ==
    (BlockRead \/ last.op = "open") =>
        \A i \in DOMAIN last.trail :
            LET e == last.trail[i]
            IN  (e.header.object_length = 0 /\ (e.header_read \/ e.outcome = "skipped")) =>
                    /\ e.seek_pos = e.start + MAX(16, e.header.header_length)
                    /\ e.seek_pos >= e.start + 16
                    /\ e.header_read => e.seek_pos >= e.start + 32

\* C5 witness: the scan has moved past an object with object_length = 0 and
\* header_length = 16 by 16 bytes, and past one with header_length = 32 by 32
C5_Witness ==
    /\ last.op = "open"
    /\ \E i, j \in DOMAIN last.trail :
           /\ last.trail[i].header.object_length = 0
           /\ last.trail[i].header.header_length = 16
           /\ last.trail[i].seek_pos = last.trail[i].start + 16
           /\ last.trail[j].header.object_length = 0
           /\ last.trail[j].header.header_length = 32
           /\ last.trail[j].seek_pos = last.trail[j].start + 32

\* the sum of the real_length of the first n containers of lc
RECURSIVE VirtualLength(_, _)
VirtualLength(lc, n) == IF n = 0 THEN 0 ELSE VirtualLength(lc, n - 1) + lc[n].real_length

\* C6: after open the containers tile the virtual space: the first starts at
\* 0 and each starts where the one before it ends; for every offset below the
\* sum of the lengths the lookup finds a container and exactly one
\* container's range holds the offset, and from the sum on the lookup fails
C6_ContainersTile ==
    phase = "open" =>
        LET lc    == blf.log_containers
            total == VirtualLength(lc, Len(lc))
            holds(v) == {i \in DOMAIN lc : /\ lc[i].real_start_pos <= v
                                          /\ v < lc[i].real_start_pos + lc[i].real_length}
        IN  /\ Len(lc) > 0 => lc[1].real_start_pos = 0
            /\ \A i \in 1..(Len(lc) - 1) :
                   lc[i].real_start_pos + lc[i].real_length = lc[i + 1].real_start_pos
            /\ \A v \in 0..(total - 1) :
                   /\ blf_find_logcontainer_for_address(lc, v) # -1
                   /\ holds(v) = {blf_find_logcontainer_for_address(lc, v) + 1}
            /\ \A v \in total..(total + ChunkLen) :
                   blf_find_logcontainer_for_address(lc, v) = -1

\* C6 witness: an open session of a file of six containers, one of them empty
C6_Witness ==
    /\ phase = "open"
    /\ Len(blf.log_containers) >= 6
    /\ \E i \in DOMAIN blf.log_containers :
           /\ 1 < i /\ i < Len(blf.log_containers)
           /\ blf.log_containers[i].real_length = 0

\* the file is one whose containers are all deflated, each holding what
\* the writer compressed
DeflatedFile ==
    /\ Files[fid].compression_method = BLF_COMPRESSION_ZLIB
    /\ Files[fid].layout \in {"whole", "chunked", "gap", "stray"}

\* C7: in a session of a file whose containers are all ZLIB, reading 1, 16 or
\* 2 * ChunkLen + 8 bytes at the cursor, when those bytes lie inside the
\* virtual space, succeeds and returns exactly those bytes of the
\* concatenated uncompressed payloads
C7_ZlibReadExact ==
    (phase = "open" /\ DeflatedFile) =>
        \A n \in {1, 16, 2 * ChunkLen + 8} :
            LET f   == Files[fid]
                off == blf.current_real_seek_pos
                r   == blf_read_bytes_or_eof(f, blf.log_containers, off, n)
            IN  off + n <= Len(f.virt) => (r.ok /\ r.data = Slice(f.virt, off, n))

\* lc with no container in memory
Uncached(lc) == [i \in DOMAIN lc |-> [lc[i] EXCEPT !.real_data = NULL]]

\* lc after pulling into memory every container from the n-th on
RECURSIVE Precached(_, _, _)
Precached(f, lc, n) ==
    IF n > Len(lc) THEN lc
    ELSE Precached(f, blf_pull_logcontainer_into_memory(f, lc, n - 1).lc, n + 1)

\* C8: in every state of an open session and for every offset a read may
\* start at, the block read gives the same return value, error, record,
\* payload, located objects and session, the containers' memory aside, when
\* it starts with no container in memory, with every ZLIB container that
\* inflates in memory, and with the containers the session has in memory
C8_CacheTransparent ==
    phase = "open" =>
        \A off \in SeekOffsets :
            LET f    == Files[fid]
                cold == blf_read_block(f, WithContainers(blf, Uncached(blf.log_containers)), off)
                warm == blf_read_block(f, WithContainers(blf,
                            Precached(f, blf.log_containers, 1)), off)
                here == blf_read_block(f, blf, off)
                seen(r) == [ok |-> r.ok, err |-> r.err, rec |-> r.rec, payload |-> r.payload,
                            trail |-> r.trail,
                            b |-> WithContainers(r.b, Uncached(r.b.log_containers))]
            IN  seen(cold) = seen(warm) /\ seen(here) = seen(cold)

\* C8 witness: a read has succeeded in a session of a ZLIB file that has one
\* container in memory and another not
C8_Witness ==
    /\ phase = "open" /\ BlockRead /\ last.ok
    /\ Files[fid].compression_method = BLF_COMPRESSION_ZLIB
    /\ \E i, j \in DOMAIN blf.log_containers :
           /\ blf.log_containers[i].real_data # NULL
           /\ blf.log_containers[j].real_data = NULL
           /\ blf.log_containers[j].real_length > 0

\* secs * 10^9 + nsecs of a record timestamp, exact
TimestampNs(ts) ==
    AddLimbs(MulLimbs(MulLimbs(ts.secs, 31250, 0), 32000, 0), NatLimbs(ts.nsecs))

\* C9: every record handed back has nsecs below 10^9 and a timestamp of at
\* least start_offset_ns
C9_TimestampNotBeforeStart ==
    (BlockRead /\ last.ok) =>
        /\ last.rec.ts.nsecs < 1000000000
        /\ ~LessLimbs(TimestampNs(last.rec.ts), blf.start_offset_ns)

\* C10: the timestamp of every record handed back is start_offset_ns plus
\* 10000 times the raw object_timestamp under the 10 us flag, and
\* start_offset_ns plus the raw object_timestamp under the 1 ns flag, as
\* numbers, without wrap-around at 2^64
C10_TimestampExact ==
    (BlockRead /\ last.ok) =>
        LET lh == last.trail[Len(last.trail)].logheader
        IN  /\ lh.flags = BLF_TIMESTAMP_RESOLUTION_10US =>
                   EqLimbs(TimestampNs(last.rec.ts),
                           AddLimbs(blf.start_offset_ns, MulLimbs(lh.object_timestamp, 10000, 0)))
            /\ lh.flags = BLF_TIMESTAMP_RESOLUTION_1NS =>
                   EqLimbs(TimestampNs(last.rec.ts),
                           AddLimbs(blf.start_offset_ns, lh.object_timestamp))

\* the (encap, channel, hw_channel) triples looked up below
Triples ==
    {WTAP_ENCAP_SOCKETCAN, WTAP_ENCAP_WIRESHARK_UPPER_PDU} \X {0, 1, 2} \X {1, UINT16_MAX}

\* the interface id of triple t in session b, by a lookup
LookupId(b, t) == blf_lookup_interface(b, t[1], t[2], t[3], NULL).id

\* the session after a lookup of triple t in session b
LookupSession(b, t) == blf_lookup_interface(b, t[1], t[2], t[3], NULL).b

\* the registry of session b2 has every key of session b1 with the id it had
KeepsIds(b1, b2) ==
    \A k \in DOMAIN b1.channel_to_iface_ht :
        /\ k \in DOMAIN b2.channel_to_iface_ht
        /\ b2.channel_to_iface_ht[k].interface_id = b1.channel_to_iface_ht[k].interface_id

\* C11: in an open session the registry maps each key to one id and no two
\* keys to the same id, the ids being 0 .. next_interface_id - 1; the keys of
\* distinct triples differ; a lookup of a known triple returns the id the
\* registry holds and changes nothing, a lookup of an unknown one returns
\* an id no key holds, and either way the same lookup afterwards, also after
\* a lookup of another triple, returns that id again; and the next
\* sequential read and every random read leave every key with its id
C11_RegistryInjective ==
    phase = "open" =>
        LET ht == blf.channel_to_iface_ht
            f  == Files[fid]
        IN  /\ \A k1, k2 \in DOMAIN ht :
                   ht[k1].interface_id = ht[k2].interface_id => k1 = k2
            /\ {ht[k].interface_id : k \in DOMAIN ht} = 0 .. (blf.next_interface_id - 1)
            /\ \A t, u \in Triples :
                   /\ t # u => blf_calc_key_value(t[1], t[2], t[3])
                                   # blf_calc_key_value(u[1], u[2], u[3])
                   /\ blf_calc_key_value(t[1], t[2], t[3]) \in DOMAIN ht =>
                          /\ LookupId(blf, t)
                                 = ht[blf_calc_key_value(t[1], t[2], t[3])].interface_id
                          /\ LookupSession(blf, t) = blf
                   /\ blf_calc_key_value(t[1], t[2], t[3]) \notin DOMAIN ht =>
                          \A k \in DOMAIN ht : ht[k].interface_id # LookupId(blf, t)
                   /\ LookupId(LookupSession(blf, t), t) = LookupId(blf, t)
                   /\ LookupId(LookupSession(LookupSession(blf, t), u), t) = LookupId(blf, t)
                   /\ t # u => LookupId(LookupSession(blf, t), u) # LookupId(blf, t)
            /\ KeepsIds(blf, blf_read(f, blf).b)
            /\ \A seek_off \in SeekOffsets : KeepsIds(blf, blf_seek_read(f, blf, seek_off).b)

\* C11 witness: a read found the interface of the first record again after
\* a second interface had been added
C11_Witness ==
    /\ phase = "open" /\ last.op = "read" /\ last.ok
    /\ blf.next_interface_id = 2
    /\ last.rec.interface_id = 0
    /\ Cardinality(seq_hist) >= 3

\* the offsets of stream at which the object magic stands
ObjectOffsets(stream) ==
    {p \in 0..(Len(stream) - 4) : SubSeq(stream, p + 1, p + 4) = blf_obj_magic}

\* the least member of a non-empty set of numbers
Least(S) == CHOOSE x \in S : \A y \in S : x <= y

\* C12: in a file whose stream ends in zero bytes, and which may have zero
\* bytes after its last container, the open succeeds and indexes the whole
\* stream; a sequential read that starts at or before an object returns that
\* object as a packet, and one that starts with only padding ahead fails
\* with err 0, the clean end of the file
C12_TrailingPaddingIsEndOfFile ==
    Files[fid].layout = "padded" =>
        /\ phase # "not_mine"
        /\ phase = "open" =>
               /\ VirtualLength(blf.log_containers, Len(blf.log_containers))
                     = Len(Files[fid].virt)
               /\ LET r == blf_read(Files[fid], blf)
                      ahead == {p \in ObjectOffsets(Files[fid].virt) :
                                   p >= blf.current_real_seek_pos}
                  IN  IF ahead = {}
                      THEN ~r.ok /\ r.err = ERR_NONE
                      ELSE r.ok /\ r.data_offset = Least(ahead)
        /\ last.op = "read" =>
               LET ahead == {p \in ObjectOffsets(Files[fid].virt) : p >= last.before}
               IN  IF ahead = {}
                   THEN ~last.ok /\ last.err = ERR_NONE
                   ELSE /\ last.ok
                        /\ last.data_offset = Least(ahead)
                        /\ last.rec.rec_type = "REC_TYPE_PACKET"

\* every object of a padded stream has been read, and the read that then
\* started in the padding has ended the file
C12_Witness ==
    /\ Files[fid].layout = "padded"
    /\ last.op = "read" /\ ~last.ok /\ last.err = ERR_NONE
    /\ {h.off : h \in seq_hist} = ObjectOffsets(Files[fid].virt)
    /\ last.before < Len(Files[fid].virt)
    /\ Len(blf.log_containers) >= 2

\* the positions of the file's stream at which fewer than 16 bytes remain
NearEnd(f) == {p \in 0..(Len(f.virt) + 1) : Len(f.virt) - p < SIZEOF_BLOCKHEADER}

\* C13: in every state of an open session, blf_read_block started where
\* fewer than 16 bytes of the stream remain, by a sequential or a random
\* read, fails with err 0; so did the last read when it started there.  The
\* stream ends with the last container or, in a truncated stored file, with
\* the file.
C13_ShortHeaderIsEndOfFile ==
    /\ phase = "open" =>
           \A p \in NearEnd(Files[fid]) :
               LET r == blf_read_block(Files[fid], blf, p)
               IN  ~r.ok /\ r.err = ERR_NONE
    /\ (last.op = "read" /\ last.before \in NearEnd(Files[fid]))
           => ~last.ok /\ last.err = ERR_NONE
    /\ (last.op = "seek_read" /\ last.seek_off \in NearEnd(Files[fid]))
           => ~last.ok /\ last.err = ERR_NONE

\* a sequential read has started 7 bytes before the end of a truncated file,
\* after a read that returned the object before, and has ended the file
C13_Witness ==
    /\ Files[fid].layout = "truncated"
    /\ last.op = "read" /\ ~last.ok /\ last.err = ERR_NONE
    /\ last.before = Len(Files[fid].virt) - 7
    /\ seq_hist # {}

\* the exported-PDU wrapper that stands before the text of a METADATA record
MetadataWrapper == apptext_epdu(EmptyBuffer, apptext_info(BLF_APPTEXT_METADATA)).data

\* C14: in a file that starts with two METADATA objects of 16 in the low 24
\* bits of reservedAppText1 and the texts "HELLO-----" and "WORLD!", the
\* first sequential read returns one upper-PDU record whose payload is the
\* wrapper followed by "HELLO-----WORLD!", and start_of_last_obj is 0, the
\* offset of the first of the two
C14_TwoObjectsOneRecord ==
    (Files[fid].layout = "total_length" /\ last.op = "read" /\ last.before = 0) =>
        /\ last.ok
        /\ last.rec.rec_type = "REC_TYPE_PACKET"
        /\ last.rec.pkt_encap = WTAP_ENCAP_WIRESHARK_UPPER_PDU
        /\ last.payload = MetadataWrapper
                            \o <<72, 69, 76, 76, 79, 45, 45, 45, 45, 45>>
                            \o <<87, 79, 82, 76, 68, 33>>
        /\ last.data_offset = 0
        /\ blf.start_of_last_obj = 0

\* C15: an open whose scan met a top-level object of a header type other
\* than 1 has not succeeded, and no session is open on a file that has one
C15_ForeignHeaderTypeFailsOpen ==
    /\ (last.op = "open" /\ \E i \in DOMAIN last.trail :
                               last.trail[i].header.header_type # BLF_HEADER_TYPE_DEFAULT)
           => ~last.ok
    /\ Files[fid].layout = "foreign" => phase \notin {"open", "closed"}

\* the text of an APP_TEXT object of the fixtures
TextOf(object) == SubSeq(object, 49, Len(object))

RECURSIVE TextsOf(_)
TextsOf(objects) ==
    IF objects = <<>> THEN <<>> ELSE TextOf(Head(objects)) \o TextsOf(Tail(objects))

\* the offset in MetaRunStream of the n-th object of the j-th run
RunOffset(j, n) ==
    (IF j > 1 THEN Len(Concat(MetaRuns[1])) ELSE 0)
              + (IF j > 2 THEN Len(Concat(MetaRuns[2])) ELSE 0)
              + Len(Concat(SubSeq(MetaRuns[j], 1, n - 1)))

\* r is what a read gives of the j-th run when started at the run's first
\* object: one upper-PDU record of the wrapper and the texts of the run, of
\* that length, start_of_last_obj at the first object, every object of the
\* run located, the last one decoded and the others passed over
ReturnsRun(r, j) ==
    LET run == MetaRuns[j]
        k   == Len(run)
    IN  /\ r.ok /\ r.err = ERR_NONE
        /\ r.rec.rec_type = "REC_TYPE_PACKET"
        /\ r.rec.pkt_encap = WTAP_ENCAP_WIRESHARK_UPPER_PDU
        /\ r.payload = MetadataWrapper \o TextsOf(run)
        /\ r.rec.caplen = Len(MetadataWrapper) + Len(TextsOf(run))
        /\ r.rec.len = r.rec.caplen
        /\ r.b.start_of_last_obj = RunOffset(j, 1)
        /\ r.b.current_real_seek_pos = RunOffset(j, k) + Len(run[k])
        /\ Len(r.trail) = k
        /\ \A n \in 1..k :
               /\ r.trail[n].start = RunOffset(j, n)
               /\ r.trail[n].outcome = IF n < k THEN "skipped" ELSE "decoded"

\* C16: in a file with runs of 1, 3 and 2 METADATA objects, in every state of
\* an open session a block read started at the first object of a run
\* returns the run as one record (ReturnsRun); the sequential read that
\* started there has done so and reported the offset of the first object;
\* and no sequential read has reported the offset of a later object of a run
C16_MetadataRunIsOneRecord ==
    Files[fid].layout = "runs" =>
        /\ phase = "open" =>
               \A j \in DOMAIN MetaRuns :
                   /\ ReturnsRun(blf_read_block(Files[fid], blf, RunOffset(j, 1)), j)
                   /\ blf.current_real_seek_pos = RunOffset(j, 1)
                          => blf_read(Files[fid], blf).data_offset = RunOffset(j, 1)
        /\ \A j \in DOMAIN MetaRuns :
               (last.op = "read" /\ last.before = RunOffset(j, 1)) =>
                   /\ ReturnsRun([ok |-> last.ok, err |-> last.err, rec |-> last.rec,
                                   payload |-> last.payload, trail |-> last.trail,
                                   b |-> blf], j)
                   /\ last.data_offset = RunOffset(j, 1)
        /\ \A h \in seq_hist : \A j \in DOMAIN MetaRuns : \A n \in 2..Len(MetaRuns[j]) :
               h.off # RunOffset(j, n)

\* a sequential read has returned the run of three objects
C16_Witness ==
    /\ Files[fid].layout = "runs"
    /\ last.op = "read" /\ last.ok
    /\ last.data_offset = RunOffset(2, 1)
    /\ Len(last.trail) = 3
    /\ last.payload = MetadataWrapper \o <<97, 98, 120, 121, 122, 99, 100>>
    /\ Len(blf.log_containers) > 1

\* the offsets in the stream of the j-th case, which starts with its first
\* continuing object: of the object that follows the continuing ones, and
\* of the METADATA object after that
InterruptionBy(j) == Len(Concat(Interruptions[j].cont))

InterruptionLater(j) == InterruptionBy(j) + Len(Interruptions[j].by)

\* what a block read hands back, the containers' memory and the located
\* objects aside
Outcome(r) ==
    [ok |-> r.ok, err |-> r.err, rec |-> r.rec, payload |-> r.payload,
     b |-> WithContainers(r.b, Uncached(r.b.log_containers))]

\* r is the METADATA record of the object at offset later alone
OwnMetadata(r, later) ==
    /\ r.ok
    /\ r.rec.pkt_encap = WTAP_ENCAP_WIRESHARK_UPPER_PDU
    /\ r.payload = MetadataWrapper \o TextOf(MetaLast)
    /\ r.rec.caplen = Len(MetadataWrapper) + Len(TextOf(MetaLast))
    /\ r.b.start_of_last_obj = later

\* C17: in the files where continuing METADATA objects are followed by a CAN
\* message, a comment, a channel description or an unknown object, with a
\* closing METADATA object after it: in every state of an open
\* session a block read started at the first continuing object hands back
\* what a block read started at the following object hands back, so nothing
\* of the continuing objects is in its record; when the following object
\* gives a record, start_of_last_obj is that object's offset and the next
\* read returns the closing METADATA object alone at its own offset; when
\* it gives none, the read itself returns the closing object alone at its
\* own offset.  The sequential read that started at the first continuing
\* object has reported that offset.
C17_InterruptedSequenceDiscarded ==
    Files[fid].layout = "interrupted" =>
        \A j \in {i \in DOMAIN Interruptions : Files[fid].virt = InterruptionBytes(i)} :
            /\ phase = "open" =>
                   LET A == blf_read_block(Files[fid], blf, 0)
                       B == blf_read_block(Files[fid], blf, InterruptionBy(j))
                       L == blf_read_block(Files[fid], A.b, A.b.current_real_seek_pos)
                   IN  /\ A.ok
                       /\ Outcome(A) = Outcome(B)
                       /\ IF Interruptions[j].emits
                          THEN /\ A.b.start_of_last_obj = InterruptionBy(j)
                               /\ A.b.current_real_seek_pos = InterruptionLater(j)
                               /\ OwnMetadata(L, InterruptionLater(j))
                          ELSE OwnMetadata(A, InterruptionLater(j))
            /\ (last.op = "read" /\ last.before = 0) =>
                   /\ last.ok
                   /\ last.data_offset = IF Interruptions[j].emits
                                         THEN InterruptionBy(j) ELSE InterruptionLater(j)
                   /\ blf.start_of_last_obj = last.data_offset
                   /\ ~Interruptions[j].emits
                          => last.payload = MetadataWrapper \o TextOf(MetaLast)

\* a sequential read that started at the two continuing objects before the
\* unknown object has returned the closing METADATA object
C17_Witness ==
    /\ Files[fid].layout = "interrupted"
    /\ last.op = "read" /\ last.ok
    /\ Files[fid].virt = InterruptionBytes(4)
    /\ last.before = 0
    /\ last.data_offset = InterruptionLater(4)
    /\ Len(last.trail) = 4
    /\ last.payload = MetadataWrapper \o <<99, 100>>

\* C18: in a file whose containers are stored and deflated in turn, in
\* every state of an open session a read of 16 bytes that starts 8 bytes
\* before the end of the first or of the second container, and so ends in
\* a container of the other compression, succeeds and returns those bytes
\* of the stream
C18_MixedRangeExact ==
    (Files[fid].layout = "mixed" /\ phase = "open") =>
        \A real_pos \in {ChunkLen - 8, 2 * ChunkLen - 8} :
            LET r == blf_read_bytes_or_eof(Files[fid], blf.log_containers, real_pos,
                                           SIZEOF_BLOCKHEADER)
            IN  r.ok /\ r.data = Slice(Files[fid].virt, real_pos, SIZEOF_BLOCKHEADER)

\* what inflate returns for the container of 0-based index i of lc, which
\* is not in memory, when its deflate stream has been read from the file
InflateReturn(f, lc, i) ==
    LET tmp == lc[i + 1]
        data_length == tmp.infile_length - (tmp.infile_data_start - tmp.infile_start_pos)
        r == wtap_read_bytes_or_eof(f, tmp.infile_data_start, data_length)
    IN  IF r.ok THEN inflate(r.data, g_try_malloc0(tmp.real_length), tmp.real_length).ret
        ELSE "not read"

\* C19: in every state of an open session, pulling a ZLIB container that is
\* not in memory and for which inflate returns anything but Z_STREAM_END
\* fails with WTAP_ERR_DECOMPRESS, or with ENOMEM when inflate returned
\* Z_MEM_ERROR; and a block read that failed on a file whose only
\* container does not inflate has reported WTAP_ERR_DECOMPRESS
C19_InflateFailureIsDecompress ==
    /\ phase = "open" =>
           \A i \in 0..(Len(blf.log_containers) - 1) :
               LET tmp == blf.log_containers[i + 1]
                   ret == InflateReturn(Files[fid], blf.log_containers, i)
                   p   == blf_pull_logcontainer_into_memory(Files[fid], blf.log_containers, i)
               IN  (/\ tmp.compression_method = BLF_COMPRESSION_ZLIB
                    /\ tmp.real_data = NULL
                    /\ ret \notin {"not read", "Z_STREAM_END"})
                   => /\ ~p.ok
                      /\ p.err = IF ret = "Z_MEM_ERROR" THEN ENOMEM
                                 ELSE WTAP_ERR_DECOMPRESS
    /\ (Files[fid].layout = "inflate" /\ last.op = "read" /\ ~last.ok)
           => last.err = WTAP_ERR_DECOMPRESS

\* the containers lc2 are the containers lc but for containers that have
\* come into memory: what lc has in memory lc2 has unchanged, and every
\* other field is the same
CacheGrown(lc, lc2) ==
    /\ Uncached(lc2) = Uncached(lc)
    /\ \A i \in DOMAIN lc : lc[i].real_data # NULL => lc2[i].real_data = lc[i].real_data

\* C20: in every state of an open session the containers are those the open
\* indexed but for real_data; a container with real_data is a ZLIB
\* container and holds real_length bytes, those of its range of the stream
\* in a file deflated by the writer; pulling a container that is in
\* memory succeeds and changes nothing, pulling one that is not either
\* fails and changes nothing or succeeds, on a ZLIB container, and sets
\* the real_data of that container alone; a sequential read and random
\* reads at 0, at 20 and at the last object keep what is in memory and
\* every other field.  After close no container is left.
C20_CacheOnlyGrows ==
    /\ phase = "closed" => blf.log_containers = <<>>
    /\ phase = "open" =>
           LET f  == Files[fid]
               lc == blf.log_containers
           IN  /\ Uncached(lc) = blf_open(f).b.log_containers
               /\ \A i \in DOMAIN lc :
                      LET p == blf_pull_logcontainer_into_memory(f, lc, i - 1)
                      IN  /\ lc[i].real_data # NULL =>
                                 /\ lc[i].compression_method = BLF_COMPRESSION_ZLIB
                                 /\ Len(lc[i].real_data) = lc[i].real_length
                                 /\ DeflatedFile =>
                                        lc[i].real_data
                                          = Slice(f.virt, lc[i].real_start_pos,
                                                  lc[i].real_length)
                                 /\ p.ok /\ p.lc = lc
                          /\ lc[i].real_data = NULL =>
                                 IF p.ok
                                 THEN /\ lc[i].compression_method = BLF_COMPRESSION_ZLIB
                                      /\ p.lc[i].real_data # NULL
                                      /\ p.lc = [lc EXCEPT ![i].real_data = p.lc[i].real_data]
                                 ELSE p.lc = lc
               /\ CacheGrown(lc, blf_read(f, blf).b.log_containers)
               /\ \A seek_off \in {0, 20, blf.start_of_last_obj} :
                      CacheGrown(lc, blf_seek_read(f, blf, seek_off).b.log_containers)

\* a sequential read has succeeded in a session that has one container in
\* memory from earlier reads and another not yet
C20_Witness ==
    /\ phase = "open" /\ last.op = "read" /\ last.ok
    /\ Cardinality(seq_hist) >= 2
    /\ \E i, k \in DOMAIN blf.log_containers :
           /\ i < k
           /\ blf.log_containers[i].real_data # NULL
           /\ blf.log_containers[k].real_data = NULL
           /\ blf.log_containers[k].compression_method = BLF_COMPRESSION_ZLIB
           /\ blf.log_containers[k].real_length > 0

\* the encapsulations of the interfaces session b has created
CreatedEncaps(b) == {b.interface_data[i].wtap_encap : i \in DOMAIN b.interface_data}

\* the file-wide encapsulation that goes with the interfaces created
FileEncapOf(b) ==
    IF CreatedEncaps(b) = {} THEN WTAP_ENCAP_NONE
    ELSE IF Cardinality(CreatedEncaps(b)) = 1 THEN CHOOSE e \in CreatedEncaps(b) : TRUE
    ELSE WTAP_ENCAP_PER_PACKET

\* C21: in every state of an open session file_encap is WTAP_ENCAP_NONE when
\* no interface has been created, the one encapsulation of the interfaces
\* created when they all have the same, and WTAP_ENCAP_PER_PACKET when two
\* differ; a lookup of a known key leaves the session as it is, a lookup
\* that creates an interface leaves file_encap as the rule says, and once
\* file_encap is WTAP_ENCAP_PER_PACKET neither a lookup nor a sequential
\* read changes it
C21_FileEncapFollowsInterfaces ==
    phase = "open" =>
        /\ blf.file_encap = FileEncapOf(blf)
        /\ \A t \in Triples :
               LET r == blf_lookup_interface(blf, t[1], t[2], t[3], NULL)
               IN  /\ blf_calc_key_value(t[1], t[2], t[3]) \in DOMAIN blf.channel_to_iface_ht
                          => r.b = blf
                   /\ r.b.file_encap = FileEncapOf(r.b)
                   /\ blf.file_encap = WTAP_ENCAP_PER_PACKET
                          => r.b.file_encap = WTAP_ENCAP_PER_PACKET
        /\ blf.file_encap = WTAP_ENCAP_PER_PACKET
               => blf_read(Files[fid], blf).b.file_encap = WTAP_ENCAP_PER_PACKET

\* a read has created a second interface whose encapsulation is not that
\* of the first, and file_encap is WTAP_ENCAP_PER_PACKET
C21_Witness ==
    /\ phase = "open" /\ last.op = "read" /\ last.ok
    /\ Len(blf.interface_data) = 2
    /\ blf.interface_data[1].wtap_encap # blf.interface_data[2].wtap_encap
    /\ blf.file_encap = WTAP_ENCAP_PER_PACKET

\* session b2 has the interfaces of session b with the ids and descriptors
\* they had, and its further interfaces have the ids that follow, one
\* descriptor each
InterfacesExtended(b, b2) ==
    /\ KeepsIds(b, b2)
    /\ b2.next_interface_id >= b.next_interface_id
    /\ Len(b2.interface_data) = b2.next_interface_id
    /\ SubSeq(b2.interface_data, 1, Len(b.interface_data)) = b.interface_data
    /\ {b2.channel_to_iface_ht[k].interface_id :
           k \in DOMAIN b2.channel_to_iface_ht \ DOMAIN b.channel_to_iface_ht}
         = b.next_interface_id .. (b2.next_interface_id - 1)

\* C22: in every state of an open session the ids of the registry entries
\* are 0 .. n - 1, where n is next_interface_id, the number of entries and
\* the number of descriptors published; the descriptor published as the
\* (id + 1)-th is that of the entry with that id; the record a read has
\* returned carries an id below n; a lookup of an unknown key returns n
\* and adds one entry and one descriptor; and the next sequential read and
\* random reads at 0 and at the last object keep every id and descriptor
\* and give further interfaces the ids that follow
C22_IdsDenseAndStable ==
    phase = "open" =>
        LET ht == blf.channel_to_iface_ht
            n  == blf.next_interface_id
        IN  /\ {ht[k].interface_id : k \in DOMAIN ht} = 0 .. (n - 1)
            /\ Cardinality(DOMAIN ht) = n
            /\ Len(blf.interface_data) = n
            /\ \A k \in DOMAIN ht :
                   blf.interface_data[ht[k].interface_id + 1].wtap_encap = ht[k].pkt_encap
            /\ (BlockRead /\ last.ok) => last.rec.interface_id \in 0 .. (n - 1)
            /\ \A t \in Triples :
                   LET r == blf_lookup_interface(blf, t[1], t[2], t[3], NULL)
                   IN  /\ InterfacesExtended(blf, r.b)
                       /\ blf_calc_key_value(t[1], t[2], t[3]) \notin DOMAIN ht =>
                              /\ r.id = n
                              /\ r.b.next_interface_id = n + 1
                              /\ Cardinality(DOMAIN r.b.channel_to_iface_ht) = n + 1
            /\ InterfacesExtended(blf, blf_read(Files[fid], blf).b)
            /\ \A seek_off \in {0, blf.start_of_last_obj} :
                   InterfacesExtended(blf, blf_seek_read(Files[fid], blf, seek_off).b)

\* a random read has returned a record of the second interface created
C22_Witness ==
    /\ phase = "open" /\ last.op = "seek_read" /\ last.ok
    /\ blf.next_interface_id = 2
    /\ last.rec.interface_id = 1
    /\ Cardinality(seq_hist) >= 2

\* C23: when the last block read has handled the channel description
\* ChannelCan7, which names CAN channel 1 "can7", it has returned no packet
\* for it, and the interface of key (WTAP_ENCAP_SOCKETCAN, 1, UINT16_MAX)
\* exists and has the name "can7", whether the description created it or a
\* CAN message of channel 1 had created it before
C23_ChannelNameAttached ==
    (phase = "open" /\ BlockRead) =>
        \A i \in DOMAIN last.trail :
            LET e   == last.trail[i]
                key == blf_calc_key_value(WTAP_ENCAP_SOCKETCAN, 1, UINT16_MAX)
            IN  (/\ e.header.object_type = BLF_OBJTYPE_APP_TEXT
                 /\ e.start + Len(ChannelCan7) <= Len(Files[fid].virt)
                 /\ Slice(Files[fid].virt, e.start, Len(ChannelCan7)) = ChannelCan7)
                => /\ e.outcome = "skipped"
                   /\ key \in DOMAIN blf.channel_to_iface_ht
                   /\ blf.interface_data[blf.channel_to_iface_ht[key].interface_id + 1].name
                        = <<99, 97, 110, 55>>

\* the object types that blf_read_block has a case for in this model
HandledTypes ==
    {BLF_OBJTYPE_LOG_CONTAINER, BLF_OBJTYPE_CAN_MESSAGE, BLF_OBJTYPE_CAN_MESSAGE2,
     BLF_OBJTYPE_APP_TEXT, BLF_OBJTYPE_CAN_FD_MESSAGE, BLF_OBJTYPE_CAN_FD_MESSAGE_64,
     BLF_OBJTYPE_ETHERNET_FRAME, BLF_OBJTYPE_ETHERNET_STATUS}

\* the entry after which nothing was located in the last block read is the
\* last of it, and the read ended the file
EndsFile(i) == i = Len(last.trail) => (~last.ok /\ last.err = ERR_NONE)

\* the search for an object from pos on finds none, and the last block read
\* ended the way the search ends: at the end of the file, or with the error
\* of the read of a block header
NothingAfter(pos) ==
    LET o == read_find_object(Files[fid], blf.log_containers, pos)
    IN  ~o.found /\ ~last.ok /\ last.err = o.err

Min3(x, y, z) == Least({x, y, z})

\* the payload length of the CAN FD object at virtual offset s of the
\* stream, of the given type: the table entry of its dlc, at most
\* validDataBytes, at most the bytes of the object after the type header
CanFdPayloadLength(stream, s, header) ==
    LET is64   == header.object_type = BLF_OBJTYPE_CAN_FD_MESSAGE_64
        t      == Slice(stream, s + header.header_length, 20)
        dlc    == (IF is64 THEN t[2] ELSE t[4]) % 16
        valid  == IF is64 THEN t[3] ELSE t[15]
        edl    == IF is64 THEN HasBit(GUINT32_FROM_LE(t, 12), BLF_CANFDMESSAGE64_FLAG_EDL)
                  ELSE HasBit(t[14], BLF_CANFDMESSAGE_CANFDFLAG_EDL)
        rtr    == IF is64
                  THEN HasBit(GUINT32_FROM_LE(t, 12), BLF_CANFDMESSAGE64_FLAG_REMOTE_FRAME)
                  ELSE HasBit(t[3], BLF_CANMESSAGE_FLAG_RTR)
        sizeof == IF is64 THEN SIZEOF_CANFDMESSAGE64 ELSE SIZEOF_CANFDMESSAGE
        left   == header.object_length - header.header_length - sizeof
    IN  IF ~edl /\ rtr THEN 0
        ELSE Min3(IF edl THEN canfd_dlc_to_length[dlc + 1] ELSE can_dlc_to_length[dlc + 1],
                  valid, left)

\* C25: a block read that returned the record of a CAN_FD_MESSAGE or
\* CAN_FD_MESSAGE_64 object gave it 8 bytes of CAN header and as many
\* payload bytes as the least of the table entry of the dlc (the FD table
\* when EDL is set, else the classic one, and 0 for a classic remote frame),
\* validDataBytes, and the bytes of the object after the type header; the
\* captured length is 8 more than that
C25_CanFdPayloadClamped ==
    (BlockRead /\ last.ok /\ Len(last.trail) > 0) =>
        LET e == last.trail[Len(last.trail)]
        IN  e.header.object_type \in {BLF_OBJTYPE_CAN_FD_MESSAGE,
                                       BLF_OBJTYPE_CAN_FD_MESSAGE_64}
            => /\ Len(last.payload) = 8 + CanFdPayloadLength(Files[fid].virt, e.start, e.header)
               /\ last.rec.caplen = 8 + CanFdPayloadLength(Files[fid].virt, e.start, e.header)

\* the entries of the registry of session b
Items(b) == {b.channel_to_iface_ht[k] : k \in DOMAIN b.channel_to_iface_ht}

\* the encapsulation, channel and hardware channel the decoder of the object
\* at virtual offset s of the stream gives its record
RecordTriple(stream, s, header) ==
    LET t == Slice(stream, s + header.header_length, 16)
    IN  CASE header.object_type = BLF_OBJTYPE_ETHERNET_FRAME ->
               <<WTAP_ENCAP_ETHERNET, GUINT16_FROM_LE(t, 6), UINT16_MAX>>
          [] header.object_type = BLF_OBJTYPE_ETHERNET_STATUS ->
               <<WTAP_ENCAP_WIRESHARK_UPPER_PDU, GUINT16_FROM_LE(t, 0), t[12]>>
          [] header.object_type = BLF_OBJTYPE_APP_TEXT ->
               <<WTAP_ENCAP_WIRESHARK_UPPER_PDU, 0, UINT16_MAX>>
          [] header.object_type = BLF_OBJTYPE_CAN_FD_MESSAGE_64 ->
               <<WTAP_ENCAP_SOCKETCAN, t[1], UINT16_MAX>>
          [] OTHER -> <<WTAP_ENCAP_SOCKETCAN, GUINT16_FROM_LE(t, 0), UINT16_MAX>>

\* the stream holds at s the object the block read located there
HoldsObject(stream, s, header) ==
    /\ s + header.header_length + 16 <= Len(stream)
    /\ Slice(stream, s, 4) = blf_obj_magic
    /\ GUINT32_FROM_LE(stream, s + 12) = header.object_type

\* C26: in an open session every registry entry is stored under the key of
\* its own encapsulation, channel and hardware channel and its descriptor
\* has its encapsulation; no two entries share an id, so none is shared by
\* an upper-PDU entry and an Ethernet entry; the record a block read
\* returned, and every record the sequential reads reported, has the id of
\* an entry of the record's encapsulation, and that entry has the channel
\* and hardware channel of the object the record was decoded from
C26_InterfaceHasOneEncap ==
    phase = "open" =>
        /\ \A k \in DOMAIN blf.channel_to_iface_ht :
               LET item == blf.channel_to_iface_ht[k]
               IN  /\ k = blf_calc_key_value(item.pkt_encap, item.channel, item.hwchannel)
                   /\ item.interface_id + 1 \in DOMAIN blf.interface_data
                   /\ blf.interface_data[item.interface_id + 1].wtap_encap = item.pkt_encap
        /\ \A i1, i2 \in Items(blf) : i1.interface_id = i2.interface_id => i1 = i2
        /\ \A i1, i2 \in Items(blf) :
               (/\ i1.pkt_encap = WTAP_ENCAP_WIRESHARK_UPPER_PDU
                /\ i2.pkt_encap = WTAP_ENCAP_ETHERNET) => i1.interface_id # i2.interface_id
        /\ \A h \in seq_hist :
               \E item \in Items(blf) : /\ item.interface_id = h.rec.interface_id
                                         /\ item.pkt_encap = h.rec.pkt_encap
        /\ (BlockRead /\ last.ok) =>
               LET e == last.trail[Len(last.trail)]
               IN  \E item \in Items(blf) :
                       /\ item.interface_id = last.rec.interface_id
                       /\ item.pkt_encap = last.rec.pkt_encap
                       /\ HoldsObject(Files[fid].virt, e.start, e.header) =>
                              <<item.pkt_encap, item.channel, item.hwchannel>>
                                  = RecordTriple(Files[fid].virt, e.start, e.header)

\* a read has returned the status of channel 1 after an Ethernet frame of
\* channel 1, on an interface of its own
C26_Witness ==
    /\ phase = "open" /\ last.op = "read" /\ last.ok
    /\ last.trail[Len(last.trail)].header.object_type = BLF_OBJTYPE_ETHERNET_STATUS
    /\ last.rec.pkt_encap = WTAP_ENCAP_WIRESHARK_UPPER_PDU
    /\ \E h \in seq_hist : /\ h.rec.pkt_encap = WTAP_ENCAP_ETHERNET
                            /\ h.rec.interface_id # last.rec.interface_id
    /\ \E i1, i2 \in Items(blf) : /\ i1.pkt_encap = WTAP_ENCAP_ETHERNET
                                   /\ i2.pkt_encap = WTAP_ENCAP_WIRESHARK_UPPER_PDU
                                   /\ i1.channel = i2.channel

\* the objects a call located lie in an extent of the given length, each
\* at or after the position the one before it moved the call to, which for
\* an object the call went on from is at least 16 bytes after its start
Advances(trail, from, extent) ==
    /\ Len(trail) <= extent \div 16
    /\ \A i \in DOMAIN trail :
           /\ trail[i].start >= from
           /\ trail[i].start + 16 <= extent
           /\ trail[i].outcome \in {"skipped", "container", "decoded"}
                  => trail[i].seek_pos >= trail[i].start + 16
           /\ i < Len(trail) => /\ trail[i].outcome \in {"skipped", "container"}
                                /\ trail[i + 1].start >= trail[i].seek_pos

\* C27: the scan of blf_open and every block read has come back with a
\* record, the end of the file or an error, after locating finitely many
\* objects, each strictly after the one before: a located object moves the
\* position by at least 16 bytes, bytes that are no object magic by one each,
\* and no object starts outside the file (the scan) or the virtual space
\* (the reads)
C27_EveryLoopAdvances ==
    /\ last.op = "open" => Advances(last.trail, 0, Len(Files[fid].bytes))
    /\ (phase = "open" /\ BlockRead) =>
           /\ Advances(last.trail,
                       IF last.op = "read" THEN last.before ELSE last.seek_off,
                       VirtualLength(blf.log_containers, Len(blf.log_containers)))
           /\ last.ok \/ last.err \in {ERR_NONE, WTAP_ERR_SHORT_READ, WTAP_ERR_BAD_FILE,
                                        WTAP_ERR_UNSUPPORTED, WTAP_ERR_DECOMPRESS,
                                        WTAP_ERR_INTERNAL, ENOMEM}

\* a sequential read has passed over an object of unknown type and then over
\* bytes that are no object magic, one by one, to the CAN message it returned,
\* in a file whose scan passed over a top-level object of no declared length
C27_Witness ==
    /\ Files[fid].layout = "tiny"
    /\ last.op = "read" /\ last.ok
    /\ Len(last.trail) = 2
    /\ last.trail[1].outcome = "skipped"
    /\ last.trail[2].start > last.trail[1].seek_pos
    /\ Len(blf.log_containers) = 2

\* the virtual offset after the last byte the decoder of the object at s read
\* for the record rec: the type header and the payload bytes of the record
ReadEnd(stream, s, header, rec) ==
    LET data_start == s + header.header_length
    IN  CASE header.object_type = BLF_OBJTYPE_ETHERNET_FRAME ->
               data_start + SIZEOF_ETHERNETFRAMEHEADER
                   + GUINT16_FROM_LE(stream, data_start + 22)
          [] header.object_type = BLF_OBJTYPE_ETHERNET_STATUS ->
               data_start + SIZEOF_ETHERNET_STATUS
          [] header.object_type = BLF_OBJTYPE_APP_TEXT ->
               data_start + SIZEOF_APPTEXT + GUINT32_FROM_LE(stream, data_start + 8)
          [] header.object_type = BLF_OBJTYPE_CAN_FD_MESSAGE ->
               data_start + SIZEOF_CANFDMESSAGE + (rec.caplen - 8)
          [] header.object_type = BLF_OBJTYPE_CAN_FD_MESSAGE_64 ->
               data_start + SIZEOF_CANFDMESSAGE64 + (rec.caplen - 8)
          [] OTHER -> data_start + SIZEOF_CANMESSAGE + (rec.caplen - 8)

\* C28: a block read that returned the record of an ETHERNET_FRAME,
\* CAN_MESSAGE or APP_TEXT object read its type header and its payload
\* inside the object: the last byte read lies before start + object_length
C28_DecoderStaysInObject ==
    (BlockRead /\ last.ok /\ Len(last.trail) > 0) =>
        LET e == last.trail[Len(last.trail)]
        IN  (/\ e.header.object_type \in {BLF_OBJTYPE_ETHERNET_FRAME,
                                           BLF_OBJTYPE_CAN_MESSAGE, BLF_OBJTYPE_APP_TEXT}
             /\ HoldsObject(Files[fid].virt, e.start, e.header))
            => ReadEnd(Files[fid].virt, e.start, e.header, last.rec)
                   <= e.start + e.header.object_length

\* the object at s of the stream lies in the stream, has room for its type
\* header and declares an empty payload
EmptyPayload(stream, s, header) ==
    LET data_start == s + header.header_length
    IN  /\ HoldsObject(stream, s, header)
        /\ s + header.object_length <= Len(stream)
        /\ \/ /\ header.object_type = BLF_OBJTYPE_ETHERNET_FRAME
              /\ header.object_length >= header.header_length + SIZEOF_ETHERNETFRAMEHEADER
              /\ GUINT16_FROM_LE(stream, data_start + 22) = 0
           \/ /\ header.object_type = BLF_OBJTYPE_APP_TEXT
              /\ header.object_length >= header.header_length + SIZEOF_APPTEXT
              /\ GUINT32_FROM_LE(stream, data_start) = BLF_APPTEXT_COMMENT
              /\ GUINT32_FROM_LE(stream, data_start + 8) = 0

\* C29: in an open session a read of no bytes succeeds at every offset of
\* the virtual space, its end included; a block read that reached an
\* ETHERNET_FRAME of payloadlength 0 or a comment of textLength 0 returned
\* its record, of the synthesized header only (14 or 18 bytes for the
\* Ethernet frame)
C29_EmptyPayloadDecodes ==
    phase = "open" =>
        /\ \A p \in 0..VirtualLength(blf.log_containers, Len(blf.log_containers)) :
               blf_read_bytes_or_eof(Files[fid], blf.log_containers, p, 0).ok
        /\ (BlockRead /\ Len(last.trail) > 0) =>
               LET e == last.trail[Len(last.trail)]
               IN  (e.header_read /\ EmptyPayload(Files[fid].virt, e.start, e.header))
                   => /\ last.ok
                      /\ e.header.object_type = BLF_OBJTYPE_ETHERNET_FRAME
                             => last.rec.caplen \in {14, 18}

\* the 0-based indices of the ZLIB containers of session b that are not in
\* memory and whose pull fails
FailingPulls(f, b) ==
    {i \in 0..(Len(b.log_containers) - 1) :
        /\ b.log_containers[i + 1].compression_method = BLF_COMPRESSION_ZLIB
        /\ b.log_containers[i + 1].real_data = NULL
        /\ ~blf_pull_logcontainer_into_memory(f, b.log_containers, i).ok}

\* C30: in an open session, a pull of a ZLIB container that fails returns the
\* containers as they were, the failed one still not in memory, and a second
\* pull fails the same way; a read of a byte of that container fails with the
\* pull's error and leaves the containers as they were; and when the cursor
\* is in such a container, blf_read fails with the pull's error and leaves
\* the containers and the interface registry as they were
C30_FailedPullChangesNothing ==
    phase = "open" =>
        \A i \in FailingPulls(Files[fid], blf) :
            LET lc == blf.log_containers
                p  == blf_pull_logcontainer_into_memory(Files[fid], lc, i)
                c  == lc[i + 1]
            IN  /\ p.lc = lc
                /\ p.lc[i + 1].real_data = NULL
                /\ blf_pull_logcontainer_into_memory(Files[fid], p.lc, i) = p
                /\ c.real_length > 0 =>
                       LET r == blf_read_bytes_or_eof(Files[fid], lc, c.real_start_pos, 1)
                       IN  blf_find_logcontainer_for_address(lc, c.real_start_pos) = i
                           => (~r.ok /\ r.err = p.err /\ r.lc = lc)
                /\ blf_find_logcontainer_for_address(lc, blf.current_real_seek_pos) = i =>
                       LET r == blf_read(Files[fid], blf)
                       IN  /\ ~r.ok /\ r.err = p.err
                           /\ r.b.log_containers = lc
                           /\ r.b.channel_to_iface_ht = blf.channel_to_iface_ht
                           /\ r.b.interface_data = blf.interface_data
                           /\ r.b.next_interface_id = blf.next_interface_id

\* a sequential read has failed with the error of the pull of the container
\* at the cursor, after reads that put another container in memory and an
\* interface in the registry; the container is still not in memory
C30_Witness ==
    /\ phase = "open" /\ last.op = "read" /\ ~last.ok
    /\ last.err \in {WTAP_ERR_INTERNAL, WTAP_ERR_DECOMPRESS}
    /\ blf.next_interface_id > 0
    /\ \E j \in DOMAIN blf.log_containers : blf.log_containers[j].real_data # NULL
    /\ \E i \in FailingPulls(Files[fid], blf) :
           /\ blf_find_logcontainer_for_address(blf.log_containers,
                                                blf.current_real_seek_pos) = i
           /\ last.err = blf_pull_logcontainer_into_memory(Files[fid],
                                                           blf.log_containers, i).err

====
